---- MODULE Spec2Model ----
(***************************************************************************)
(* LoRa / BLE bridge (esp32s3 library crate): the wire codec of            *)
(* protocol.rs and the two bridge tasks of ble.rs and lora.rs.             *)
(*                                                                         *)
(* A char is its Unicode code point, a text (heapless String<64>) is a     *)
(* sequence of chars whose UTF-8 length is at most 64 bytes, a byte buffer *)
(* is a sequence of numbers 0..255 (index i of the code is i+1 here).      *)
(***************************************************************************)
EXTENDS Integers, Sequences, FiniteSets, TLC

\* ------------------------------------------------------------------------
\* Program constants
\* ------------------------------------------------------------------------

\* protocol.rs:9
MAX_TEXT_LENGTH == 50

\* protocol.rs:129, the capacity in bytes of heapless::String<64>
STRING_CAP == 64

\* ble.rs:237, lora.rs:221, lora.rs:231: the 64-byte scratch buffers
BUF_SIZE == 64

\* protocol.rs:14, the 64 symbols as code points:
\* " ABCDEFGHIJKLMNOPQRSTUVWXYZ0123456789.,!?-:;'\"@#$%&*()[]{}=+/<>_"
CHARSET ==
    << 32,
       65, 66, 67, 68, 69, 70, 71, 72, 73, 74, 75, 76, 77,
       78, 79, 80, 81, 82, 83, 84, 85, 86, 87, 88, 89, 90,
       48, 49, 50, 51, 52, 53, 54, 55, 56, 57,
       46, 44, 33, 63, 45, 58, 59, 39, 34, 64, 35, 36, 37, 38, 42,
       40, 41, 91, 93, 123, 125, 61, 43, 47, 60, 62, 95 >>

\* ------------------------------------------------------------------------
\* Machine arithmetic on u8 / i32
\* ------------------------------------------------------------------------

Pow2(k) == 2 ^ k

\* u8 << k : bits shifted past bit 7 are lost
Shl8(v, k) == (v * Pow2(k)) % 256

\* u8 >> k
Shr8(v, k) == v \div Pow2(k)

\* u8 | u8
RECURSIVE BitOr(_, _)
BitOr(a, b) ==
    IF a = 0 THEN b
    ELSE IF b = 0 THEN a
    ELSE (IF a % 2 = 1 \/ b % 2 = 1 THEN 1 ELSE 0) + 2 * BitOr(a \div 2, b \div 2)

\* u8 & ((1 << k) - 1)
LowBits(v, k) == v % Pow2(k)

\* char::len_utf8
len_utf8(ch) ==
    IF ch < 128 THEN 1 ELSE IF ch < 2048 THEN 2 ELSE IF ch < 65536 THEN 3 ELSE 4

\* str::len: the length in bytes, the sum of len_utf8 over the chars: one
\* byte for every char and one more for every char at each of the three
\* thresholds of len_utf8
StrLen(text) ==
    Len(text)
      + Cardinality({i \in 1..Len(text) : len_utf8(text[i]) >= 2})
      + Cardinality({i \in 1..Len(text) : len_utf8(text[i]) >= 3})
      + Cardinality({i \in 1..Len(text) : len_utf8(text[i]) >= 4})

\* str::chars().count()
CharCount(text) == Len(text)

\* a fold that leaves every char as it is
NoFold(ch) == ch

\* char::to_ascii_uppercase
to_ascii_uppercase(ch) == IF ch >= 97 /\ ch <= 122 THEN ch - 32 ELSE ch

\* division rounding down
DivFloor(a, b) == a \div b

\* usize::div_ceil
div_ceil(a, b) == (a + b - 1) \div b

\* the four bytes most significant first
to_be_bytes(v) ==
    << (v \div 16777216) % 256, (v \div 65536) % 256, (v \div 256) % 256, v % 256 >>

\* i32::to_le_bytes: arithmetic shift and mask, two's complement
to_le_bytes(v) ==
    << v % 256, (v \div 256) % 256, (v \div 65536) % 256, (v \div 16777216) % 256 >>

\* i32::from_le_bytes
from_le_bytes(b) ==
    b[1] + 256 * b[2] + 65536 * b[3]
      + 16777216 * (IF b[4] >= 128 THEN b[4] - 256 ELSE b[4])

\* ------------------------------------------------------------------------
\* Results.  Ok(v) / Err(e) with one record shape.
\* ------------------------------------------------------------------------

NoMsg == [type |-> "None", seq |-> 0, text |-> << >>, lat |-> 0, lon |-> 0]

TextMessage(seq, text) ==
    [type |-> "Text", seq |-> seq, text |-> text, lat |-> 0, lon |-> 0]

GpsMessage(seq, lat, lon) ==
    [type |-> "Gps", seq |-> seq, text |-> << >>, lat |-> lat, lon |-> lon]

AckMessage(seq) ==
    [type |-> "Ack", seq |-> seq, text |-> << >>, lat |-> 0, lon |-> 0]

\* ------------------------------------------------------------------------
\* protocol.rs: 6-bit text packing
\* ------------------------------------------------------------------------

\* CHARSET.iter().position(|&c| c as char == ch), searching from index i on:
\* the first index that holds ch, 0-based, -1 for None
Position(ch, i) ==
    LET hits == {j \in i..Len(CHARSET) : CHARSET[j] = ch}
    IN  IF hits = {} THEN -1
        ELSE (CHOOSE j \in hits : \A k \in hits : j <= k) - 1

\* char_to_6bit
char_to_6bit(ch) ==
    LET p == Position(to_ascii_uppercase(ch), 1)
    IN  IF p >= 0 THEN [ok |-> TRUE, val |-> p, err |-> ""]
        ELSE [ok |-> FALSE, val |-> 0, err |-> "Character not in supported charset"]

\* sixbit_to_char
sixbit_to_char(val) ==
    IF val < Len(CHARSET) THEN [ok |-> TRUE, ch |-> CHARSET[val + 1], err |-> ""]
    ELSE [ok |-> FALSE, ch |-> 0, err |-> "Invalid 5-bit value"]

\* result[idx] |= v  (idx 0-based; an index out of range panics)
OrAt(st, idx, v) ==
    IF idx < Len(st.result)
    THEN [st EXCEPT !.result[idx + 1] = BitOr(@, v)]
    ELSE [st EXCEPT !.panic = TRUE]

\* the iteration without the write of the low bits into the following byte
PackStepNoSpill(st, value) ==
    LET byte_idx == st.bit_offset \div 8
        bit_in_byte == st.bit_offset % 8
        st1 ==
          IF bit_in_byte <= 2
          THEN OrAt(st, byte_idx, Shl8(value, 2 - bit_in_byte))
          ELSE OrAt(st, byte_idx, Shr8(value, 6 - (8 - bit_in_byte)))
    IN  [st1 EXCEPT !.bit_offset = @ + 6]

\* one iteration of pack_text's loop for the 6-bit value of one char
PackStep(st, value) ==
    LET byte_idx == st.bit_offset \div 8
        bit_in_byte == st.bit_offset % 8
        st1 ==
          IF bit_in_byte <= 2
          THEN OrAt(st, byte_idx, Shl8(value, 2 - bit_in_byte))
          ELSE LET bits_in_first == 8 - bit_in_byte
                   bits_in_second == 6 - bits_in_first
                   s1 == OrAt(st, byte_idx, Shr8(value, bits_in_second))
               IN  IF byte_idx + 1 < Len(s1.result)
                   THEN OrAt(s1, byte_idx + 1, Shl8(value, 8 - bits_in_second))
                   ELSE s1
    IN  [st1 EXCEPT !.bit_offset = @ + 6]

\* the loop of pack_text over text.chars(), chars lo..hi, continuing from the
\* outcome r of the chars before lo: the first half of the range, then the
\* rest, so that the evaluation nests no deeper than the logarithm of the
\* length. An unsupported char returns the error at once ("?"); after a
\* panic nothing runs.
RECURSIVE PackLoop(_, _, _, _)
PackLoop(text, lo, hi, r) ==
    IF lo > hi \/ ~r.ok \/ r.st.panic THEN r
    ELSE IF lo = hi
    THEN LET v == char_to_6bit(text[lo])
         IN  IF ~v.ok THEN [ok |-> FALSE, st |-> r.st, err |-> v.err]
             ELSE [ok |-> TRUE, st |-> PackStep(r.st, v.val), err |-> ""]
    ELSE PackLoop(text, (lo + hi) \div 2 + 1, hi,
                  PackLoop(text, lo, (lo + hi) \div 2, r))

\* pack_text
pack_text(text) ==
    LET char_count == CharCount(text)
        byte_count == div_ceil(char_count * 6, 8)
        st0 == [result |-> [k \in 1..byte_count |-> 0], bit_offset |-> 0,
                panic |-> FALSE]
        r == PackLoop(text, 1, Len(text), [ok |-> TRUE, st |-> st0, err |-> ""])
    IN  [ok |-> r.ok, bytes |-> r.st.result, err |-> r.err, panic |-> r.st.panic]

\* packed[idx] (idx 0-based): the value read, 0 when the index is out of range
ByteAt(packed, idx) == IF idx < Len(packed) THEN packed[idx + 1] ELSE 0

\* the state after reading packed[idx]: the index is recorded, and an index out
\* of range is the panic of a bounds-checked slice access
ReadAt(st, packed, idx) ==
    [st EXCEPT !.reads = @ \cup {idx},
               !.panic = @ \/ idx >= Len(packed)]

\* heapless String::push: fails when the char does not fit in the capacity
StringPush(text, ch) ==
    IF StrLen(text) + len_utf8(ch) > STRING_CAP
    THEN [ok |-> FALSE, text |-> text]
    ELSE [ok |-> TRUE, text |-> Append(text, ch)]

\* the iteration without the length check before the second byte is read
UnpackStepUnchecked(st, packed) ==
    LET byte_idx == st.bit_offset \div 8
        bit_in_byte == st.bit_offset % 8
    IN  IF byte_idx >= Len(packed)
        THEN [st EXCEPT !.done = TRUE, !.err = "Insufficient packed data"]
        ELSE
          LET st1 == IF bit_in_byte <= 2
                     THEN ReadAt(st, packed, byte_idx)
                     ELSE ReadAt(ReadAt(st, packed, byte_idx), packed, byte_idx + 1)
              value ==
                IF bit_in_byte <= 2
                THEN Shr8(ByteAt(packed, byte_idx), 2 - bit_in_byte) % 64
                ELSE BitOr(Shl8(LowBits(ByteAt(packed, byte_idx), 8 - bit_in_byte),
                                6 - (8 - bit_in_byte)),
                           Shr8(ByteAt(packed, byte_idx + 1), 8 - (6 - (8 - bit_in_byte))))
              pushed == StringPush(st1.result, sixbit_to_char(value).ch)
          IN  IF ~pushed.ok
              THEN [st1 EXCEPT !.done = TRUE, !.err = "String capacity exceeded"]
              ELSE [st1 EXCEPT !.result = pushed.text, !.bit_offset = @ + 6]

\* one iteration of unpack_text's loop; "done" is set by an early return
UnpackStep(st, packed) ==
    LET byte_idx == st.bit_offset \div 8
        bit_in_byte == st.bit_offset % 8
    IN  IF byte_idx >= Len(packed)
        THEN [st EXCEPT !.done = TRUE, !.err = "Insufficient packed data"]
        ELSE IF bit_in_byte > 2 /\ ~(byte_idx + 1 < Len(packed))
        THEN \* first_part is read before second_part's check fails
             [ReadAt(st, packed, byte_idx) EXCEPT
                 !.done = TRUE, !.err = "Insufficient packed data"]
        ELSE
          LET st1 == IF bit_in_byte <= 2
                     THEN ReadAt(st, packed, byte_idx)
                     ELSE ReadAt(ReadAt(st, packed, byte_idx), packed, byte_idx + 1)
              value ==
                IF bit_in_byte <= 2
                THEN Shr8(ByteAt(packed, byte_idx), 2 - bit_in_byte) % 64
                ELSE LET bits_in_first == 8 - bit_in_byte
                         bits_in_second == 6 - bits_in_first
                         first_part == LowBits(ByteAt(packed, byte_idx), bits_in_first)
                         second_part ==
                             Shr8(ByteAt(packed, byte_idx + 1), 8 - bits_in_second)
                     IN  BitOr(Shl8(first_part, bits_in_second), second_part)
              c == sixbit_to_char(value)
              pushed == StringPush(st1.result, c.ch)
          IN  IF ~c.ok THEN [st1 EXCEPT !.done = TRUE, !.err = c.err]
              ELSE IF ~pushed.ok
              THEN [st1 EXCEPT !.done = TRUE, !.err = "String capacity exceeded"]
              ELSE [st1 EXCEPT !.result = pushed.text, !.bit_offset = @ + 6]

\* the loop "for _ in 0..char_count" of unpack_text, n iterations left: the
\* first half of them, then the rest, so that the evaluation nests no deeper
\* than the logarithm of n
RECURSIVE UnpackLoop(_, _, _)
UnpackLoop(packed, n, st) ==
    IF n = 0 \/ st.done \/ st.panic THEN st
    ELSE IF n = 1 THEN UnpackStep(st, packed)
    ELSE UnpackLoop(packed, n - (n \div 2), UnpackLoop(packed, n \div 2, st))

\* unpack_text
unpack_text(packed, char_count) ==
    LET st0 == [result |-> << >>, bit_offset |-> 0, reads |-> {},
                panic |-> FALSE, done |-> FALSE, err |-> ""]
        st == UnpackLoop(packed, char_count, st0)
    IN  [ok |-> ~st.done, text |-> st.result, err |-> st.err,
         reads |-> st.reads, panic |-> st.panic]

\* ------------------------------------------------------------------------
\* protocol.rs: Message::serialize / Message::deserialize
\* ------------------------------------------------------------------------

\* the bytes or-ed into the buffer in place of copied
OrInto(buf, from, bytes) ==
    [k \in 1..Len(buf) |->
        IF k > from /\ k <= from + Len(bytes) THEN BitOr(buf[k], bytes[k - from])
        ELSE buf[k]]

\* buf[from .. from + Len(bytes)].copy_from_slice(bytes), from 0-based
CopyInto(buf, from, bytes) ==
    [k \in 1..Len(buf) |->
        IF k > from /\ k <= from + Len(bytes) THEN bytes[k - from] ELSE buf[k]]

SerErr(buf, e) == [ok |-> FALSE, len |-> 0, err |-> e, buf |-> buf, panic |-> FALSE]

SerOk(buf, n) == [ok |-> TRUE, len |-> n, err |-> "", buf |-> buf, panic |-> FALSE]

\* a panic inside serialize: nothing is returned
SerPanic(buf) == [ok |-> FALSE, len |-> 0, err |-> "", buf |-> buf, panic |-> TRUE]

\* the Text arm with the text packed before its length is checked
SerializeTextPackFirst(m, buf) ==
    LET packed == pack_text(m.text)
        packed_len == Len(packed.bytes)
    IN  IF packed.panic THEN SerPanic(buf)
        ELSE IF ~packed.ok THEN SerErr(buf, packed.err)
        ELSE IF StrLen(m.text) > MAX_TEXT_LENGTH THEN SerErr(buf, "Text too long")
        ELSE IF Len(buf) < 4 + packed_len THEN SerErr(buf, "Buffer too small")
        ELSE SerOk(CopyInto(buf, 0,
                     << 1, m.seq, StrLen(m.text) % 256, packed_len % 256 >>
                       \o packed.bytes),
                   4 + packed_len)

\* the Text arm without the check of the text's length
SerializeTextNoLimit(m, buf) ==
    LET packed == pack_text(m.text)
        packed_len == Len(packed.bytes)
    IN  IF packed.panic THEN SerPanic(buf)
        ELSE IF ~packed.ok THEN SerErr(buf, packed.err)
        ELSE IF Len(buf) < 4 + packed_len THEN SerErr(buf, "Buffer too small")
        ELSE SerOk(CopyInto(buf, 0,
                     << 1, m.seq, StrLen(m.text) % 256, packed_len % 256 >>
                       \o packed.bytes),
                   4 + packed_len)

\* Message::serialize, the Text arm
SerializeText(m, buf) ==
    IF StrLen(m.text) > MAX_TEXT_LENGTH THEN SerErr(buf, "Text too long")
    ELSE LET packed == pack_text(m.text)
             packed_len == Len(packed.bytes)
         IN  IF packed.panic THEN SerPanic(buf)
             ELSE IF ~packed.ok THEN SerErr(buf, packed.err)
             ELSE IF Len(buf) < 4 + packed_len THEN SerErr(buf, "Buffer too small")
             ELSE SerOk(CopyInto(buf, 0,
                          << 1, m.seq, StrLen(m.text) % 256, packed_len % 256 >>
                            \o packed.bytes),
                        4 + packed_len)

\* Message::serialize, the Gps arm
SerializeGps(m, buf) ==
    IF Len(buf) < 10 THEN SerErr(buf, "Buffer too small")
    ELSE SerOk(CopyInto(buf, 0,
                 << 2, m.seq >> \o to_le_bytes(m.lat) \o to_le_bytes(m.lon)), 10)

\* Message::serialize, the Ack arm
SerializeAck(m, buf) ==
    IF Len(buf) < 2 THEN SerErr(buf, "Buffer too small")
    ELSE SerOk(CopyInto(buf, 0, << 3, m.seq >>), 2)

\* Message::serialize(&self, buf): the result and the buffer afterwards
serialize(m, buf) ==
    CASE m.type = "Text" -> SerializeText(m, buf)
      [] m.type = "Gps" -> SerializeGps(m, buf)
      [] OTHER -> SerializeAck(m, buf)

DesErr(e, reads) ==
    [ok |-> FALSE, msg |-> NoMsg, err |-> e, reads |-> reads, panic |-> FALSE]

DesOk(m, reads) ==
    [ok |-> TRUE, msg |-> m, err |-> "", reads |-> reads, panic |-> FALSE]

\* Message::deserialize, the 0x01 arm
DeserializeText(buf) ==
    IF Len(buf) < 4
    THEN DesErr("Buffer too small for text message header", {0})
    ELSE LET seq == buf[2]
             char_count == buf[3]
             packed_len == buf[4]
         IN  IF Len(buf) < 4 + packed_len
             THEN DesErr("Buffer too small for packed text", 0..3)
             ELSE LET packed_bytes == SubSeq(buf, 5, 4 + packed_len)
                      u == unpack_text(packed_bytes, char_count)
                      reads == (0..3) \cup {4 + i : i \in u.reads}
                  IN  IF u.panic
                      THEN [ok |-> FALSE, msg |-> NoMsg, err |-> "", reads |-> reads,
                            panic |-> TRUE]
                      ELSE IF ~u.ok THEN DesErr(u.err, reads)
                      ELSE DesOk(TextMessage(seq, u.text), reads)

\* Message::deserialize, the 0x02 arm
DeserializeGps(buf) ==
    IF Len(buf) < 10 THEN DesErr("Buffer too small for GPS message", {0})
    ELSE DesOk(GpsMessage(buf[2], from_le_bytes(SubSeq(buf, 3, 6)),
                          from_le_bytes(SubSeq(buf, 7, 10))), 0..9)

\* Message::deserialize, the 0x03 arm
DeserializeAck(buf) ==
    IF Len(buf) < 2 THEN DesErr("Buffer too small for ack", {0})
    ELSE DesOk(AckMessage(buf[2]), 0..1)

\* a deserialize that rejects a buffer longer than the frame it holds
DeserializeNoTrailing(buf) ==
    IF buf = << >> THEN DesErr("Empty buffer", {})
    ELSE CASE buf[1] = 1 ->
                IF Len(buf) >= 4 /\ Len(buf) > 4 + buf[4]
                THEN DesErr("Trailing bytes", 0..3)
                ELSE DeserializeText(buf)
           [] buf[1] = 2 ->
                IF Len(buf) > 10 THEN DesErr("Trailing bytes", {0})
                ELSE DeserializeGps(buf)
           [] buf[1] = 3 ->
                IF Len(buf) > 2 THEN DesErr("Trailing bytes", {0})
                ELSE DeserializeAck(buf)
           [] OTHER -> DesErr("Unknown message type", {0})

\* Message::deserialize(buf)
deserialize(buf) ==
    IF buf = << >> THEN DesErr("Empty buffer", {})
    ELSE CASE buf[1] = 1 -> DeserializeText(buf)
           [] buf[1] = 2 -> DeserializeGps(buf)
           [] buf[1] = 3 -> DeserializeAck(buf)
           [] OTHER -> DesErr("Unknown message type", {0})

\* ------------------------------------------------------------------------
\* Inputs of the codec: messages, destination buffers, raw frames
\* ------------------------------------------------------------------------

\* longest repeated pattern of a sample text
MaxPat == 2

\* longest sample text cut out of the sequence of all encodable chars
MaxWin == 5

\* sequence tags tried
Seqs == {42, 255}

\* 'S', 'a' (lowercase), '~' (ASCII, not in the alphabet),
\* U+00E9 (2 bytes in UTF-8), U+1F198 (4 bytes in UTF-8)
CharSamples == {83, 97, 126, 233, 128728}

\* every char char_to_6bit accepts: the alphabet and the lowercase letters
ValidChars == CHARSET \o [k \in 1..26 |-> 96 + k]

Patterns == UNION {[1..k -> CharSamples] : k \in 1..MaxPat}

\* the pattern p repeated up to n chars
Cyc(p, n) == [i \in 1..n |-> p[((i - 1) % Len(p)) + 1]]

\* n chars of ValidChars from position i on, cyclically
Win(i, n) == [k \in 1..n |-> ValidChars[((i + k - 2) % Len(ValidChars)) + 1]]

\* the texts a TextMessage can hold that are tried: at most STRING_CAP bytes
\* "SOS", "HELP", "OK"
ExampleTexts == { << 83, 79, 83 >>, << 72, 69, 76, 80 >>, << 79, 75 >> }

Texts ==
    {t \in {Cyc(p, n) : p \in Patterns, n \in 0..STRING_CAP}
             \cup {Win(i, n) : i \in 1..Len(ValidChars), n \in 0..MaxWin}
             \cup ExampleTexts :
        StrLen(t) <= STRING_CAP}

MinI32 == -2147483647 - 1

MaxI32 == 2147483647

I32Samples == {MinI32, -122419200, -1, 0, 255, 37774200, MaxI32}

Messages ==
    {TextMessage(s, t) : s \in Seqs, t \in Texts}
      \cup {GpsMessage(s, la, lo) : s \in Seqs, la \in I32Samples, lo \in I32Samples}
      \cup {AckMessage(s) : s \in Seqs}

\* sizes of the destination buffer handed to serialize
DstSizes == {1, 9, 41, BUF_SIZE}

\* a destination buffer of n bytes
Buffer(n) == [k \in 1..n |-> 0]

\* raw frames handed to deserialize: tag, three header bytes, then a payload
\* whose bytes vary with the position
TagSamples == {0, 1, 2, 3, 4, 255}

CountSamples == {0, 1, 2, 3, 50, 51, 52, 64, 65, 66, 67, 255}

PackedLenSamples == {0, 1, 2, 38, 39, 48, 49, 50, 61, 255}

FillSamples == {0, 165}

RawFrame(tag, s, cc, pl, n, fill) ==
    [k \in 1..n |->
        CASE k = 1 -> tag
          [] k = 2 -> s
          [] k = 3 -> cc
          [] k = 4 -> pl
          [] OTHER -> (fill + 77 * k) % 256]

RawFrames ==
    {RawFrame(1, 42, cc, pl, n, f) :
        cc \in CountSamples, pl \in PackedLenSamples, n \in 0..BUF_SIZE,
        f \in FillSamples}
      \cup {RawFrame(tag, s, 7, 200, n, 0) :
               tag \in TagSamples, s \in Seqs, n \in 0..BUF_SIZE}

\* ------------------------------------------------------------------------
\* lora.rs: configuration of the transceiver from the build's environment
\* ------------------------------------------------------------------------

\* option_env!: None when the variable was not set at build time, Some(str)
\* otherwise; a str is the sequence of its (ASCII) characters
None == [some |-> FALSE, str |-> << >>]

Some(str) == [some |-> TRUE, str |-> str]

\* lora.rs:119, 126, 131: the default output power in dBm
DEFAULT_POWER == 14

\* lora.rs:110: (-4..=20)
MIN_POWER == -4

MAX_POWER == 20

\* lora.rs:157, 164, 169: the default frequency in Hz
DEFAULT_FREQUENCY == 433920000

\* lora.rs:140-142: the three ranges of accepted frequencies in Hz
BAND_433_MIN == 433050000

BAND_433_MAX == 434790000

BAND_868_MIN == 863000000

BAND_868_MAX == 870000000

BAND_915_MIN == 902000000

BAND_915_MAX == 928000000

\* the decimal digits of i32::MAX, of the magnitude of i32::MIN, of u32::MAX
I32MaxDigits == << 50, 49, 52, 55, 52, 56, 51, 54, 52, 55 >>

I32MinDigits == << 50, 49, 52, 55, 52, 56, 51, 54, 52, 56 >>

U32MaxDigits == << 52, 50, 57, 52, 57, 54, 55, 50, 57, 53 >>

IsDigit(c) == c \in 48..57

\* the digits without their leading zeros
StripZeros(ds) ==
    LET nz == {i \in 1..Len(ds) : ds[i] # 48}
    IN  IF nz = {} THEN << >>
        ELSE SubSeq(ds, CHOOSE i \in nz : \A j \in nz : i <= j, Len(ds))

\* a <= b for two numbers given by their digits without leading zeros
MagLeq(a, b) ==
    \/ Len(a) < Len(b)
    \/ /\ Len(a) = Len(b)
       /\ \/ a = b
          \/ \E k \in 1..Len(a) :
                /\ a[k] < b[k]
                /\ \A j \in 1..(k - 1) : a[j] = b[j]

\* the number the first n digits of ds stand for
RECURSIVE DigitsValue(_, _)
DigitsValue(ds, n) ==
    IF n = 0 THEN 0 ELSE 10 * DigitsValue(ds, n - 1) + (ds[n] - 48)

ParseErr == [ok |-> FALSE, val |-> 0, big |-> FALSE]

\* str::parse for an integer type: an optional sign ("+", and "-" for a
\* signed type), then one or more decimal digits; Err for the empty string,
\* for a sign alone, for any other character and for a number outside the
\* type. big: the number is above i32::MAX (a u32 above 2^31 - 1), val is then
\* not given.
ParseInt(str, signed, maxDigits, minDigits) ==
    IF str = << >> THEN ParseErr
    ELSE IF Len(str) = 1 /\ str[1] \in {43, 45} THEN ParseErr
    ELSE LET neg == signed /\ str[1] = 45
             digits == IF str[1] = 43 \/ neg THEN Tail(str) ELSE str
             mag == StripZeros(digits)
         IN  IF \E i \in 1..Len(digits) : ~IsDigit(digits[i]) THEN ParseErr
             ELSE IF ~MagLeq(mag, IF neg THEN minDigits ELSE maxDigits)
             THEN ParseErr
             ELSE IF ~MagLeq(mag, I32MaxDigits)
             THEN [ok |-> TRUE, val |-> IF neg THEN -MaxI32 - 1 ELSE 0,
                   big |-> ~neg]
             ELSE [ok |-> TRUE, big |-> FALSE,
                   val |-> IF neg THEN -DigitsValue(mag, Len(mag))
                           ELSE DigitsValue(mag, Len(mag))]

\* power_str.parse::<i32>()
parse_i32(str) == ParseInt(str, TRUE, I32MaxDigits, I32MinDigits)

\* freq_str.parse::<u32>()
parse_u32(str) == ParseInt(str, FALSE, U32MaxDigits, << >>)

\* an out-of-range power brought to the nearest end of the range
ResolvePowerClamped(opt) ==
    LET p == parse_i32(opt.str)
    IN  IF ~opt.some \/ ~p.ok THEN DEFAULT_POWER
        ELSE IF p.val < MIN_POWER THEN MIN_POWER
        ELSE IF p.val > MAX_POWER THEN MAX_POWER
        ELSE p.val

\* let output_power: i32 = ...
ResolvePower(opt) ==
    IF opt.some
    THEN LET p == parse_i32(opt.str)
         IN  IF p.ok /\ p.val \in MIN_POWER..MAX_POWER THEN p.val
             ELSE DEFAULT_POWER
    ELSE DEFAULT_POWER

\* the ISM ranges of the match guard
InBand(v) ==
    \/ v \in BAND_433_MIN..BAND_433_MAX
    \/ v \in BAND_868_MIN..BAND_868_MAX
    \/ v \in BAND_915_MIN..BAND_915_MAX

\* let frequency: u32 = ...
ResolveFrequency(opt) ==
    IF opt.some
    THEN LET p == parse_u32(opt.str)
         IN  IF p.ok /\ ~p.big /\ InBand(p.val) THEN p.val
             ELSE DEFAULT_FREQUENCY
    ELSE DEFAULT_FREQUENCY

\* values of LORA_TX_POWER_DBM a build may have
PowerStrings ==
    { None,
      Some(<< 49, 52 >>),                                              \* "14"
      Some(<< 45, 52 >>),                                              \* "-4"
      Some(<< 50, 48 >>),                                              \* "20"
      Some(<< 50, 49 >>),                                              \* "21"
      Some(<< 45, 53 >>),                                              \* "-5"
      Some(<< 43, 55 >>),                                              \* "+7"
      Some(<< 48 >>),                                                  \* "0"
      Some(<< 48, 48, 55 >>),                                          \* "007"
      Some(<< 97, 98, 99 >>),                                          \* "abc"
      Some(<< >>),                                                     \* ""
      Some(<< 32, 55 >>),                                              \* " 7"
      Some(<< 45 >>),                                                  \* "-"
      Some(<< 57, 57, 57, 57, 57, 57, 57, 57, 57, 57, 57 >>) }         \* "99999999999"

\* values of LORA_TX_FREQUENCY a build may have
FreqStrings ==
    { None,
      Some(<< 52, 51, 51, 57, 50, 48, 48, 48, 48 >>),                  \* "433920000"
      Some(<< 52, 51, 51, 48, 53, 48, 48, 48, 48 >>),                  \* "433050000"
      Some(<< 52, 51, 52, 55, 57, 48, 48, 48, 48 >>),                  \* "434790000"
      Some(<< 52, 51, 51, 48, 52, 57, 57, 57, 57 >>),                  \* "433049999"
      Some(<< 52, 51, 52, 55, 57, 48, 48, 48, 49 >>),                  \* "434790001"
      Some(<< 56, 54, 51, 48, 48, 48, 48, 48, 48 >>),                  \* "863000000"
      Some(<< 56, 55, 48, 48, 48, 48, 48, 48, 49 >>),                  \* "870000001"
      Some(<< 57, 49, 53, 48, 48, 48, 48, 48, 48 >>),                  \* "915000000"
      Some(<< 57, 50, 56, 48, 48, 48, 48, 48, 49 >>),                  \* "928000001"
      Some(<< 43, 57, 48, 50, 48, 48, 48, 48, 48, 48 >>),              \* "+902000000"
      Some(<< 45, 56, 54, 56, 48, 48, 48, 48, 48, 48 >>),              \* "-868000000"
      Some(<< 56, 54, 56, 46, 49 >>),                                  \* "868.1"
      Some(<< 52, 50, 57, 52, 57, 54, 55, 50, 57, 53 >>),              \* "4294967295"
      Some(<< 52, 50, 57, 52, 57, 54, 55, 50, 57, 54 >>) }             \* "4294967296"

\* the steps of lora_task before its loop that can fail, in order; the first
\* three come before the configuration is read
InitSteps ==
    { "interface", "radio", "init", "modulation_params", "tx_packet_params",
      "rx_packet_params", "prepare_for_rx" }

EarlySteps == { "interface", "radio", "init" }

\* ------------------------------------------------------------------------
\* The bridge: state of the two tasks of ble.rs and lora.rs
\* ------------------------------------------------------------------------

\* ble.rs:28, lora.rs:42: Channel<_, Message, 5>, short range to long range
OUT_CAP == 5

\* ble.rs:29, lora.rs:43: Channel<_, Message, 10>, long range to short range
IN_CAP == 10

\* frames the remote bridge sends over the air in one run
MaxAir == 11

\* writes of a decodable payload to the RX attribute in one run
MaxWrites == 6

VARIABLES
    ble_to_lora,  \* the outbound channel: messages in FIFO order
    lora_to_ble,  \* the inbound channel: messages in FIFO order
    bpc,          \* short-range task: "init", "dead", "advertising", "waiting", "notifying"
    nbuf,         \* the payload handed to the notify call in progress
    lpc,          \* long-range task: "init", "dead", "race" (top of the loop),
                  \* "select" (suspended in select, the receive wait pending),
                  \* "tx_prepare", "tx", "rearm", "ack_prepare", "ack_tx",
                  \* "ack_rearm"
    lmsg,         \* the message the long-range task is handling
    txbuf,        \* the frame handed to prepare_for_tx
    txpower,      \* the output power handed to prepare_for_tx with the frame
    radio,        \* the last mode command the transceiver completed
    airCount,     \* frames received over the air so far
    bleCount,     \* decodable writes to the RX attribute so far
    dataReceived, \* Text and Gps frames received over the air so far
    acksSent,     \* prepare_for_tx calls carrying an Ack frame so far
    notified,     \* notify calls started so far
    bridgedTx,    \* messages of the outbound channel handed to prepare_for_tx
                  \* so far
    ev,           \* what the last step did: the action, the try_send it made,
                  \* the message it handled, where the long-range task was
    power_str,    \* option_env!("LORA_TX_POWER_DBM") of the build
    freq_str,     \* option_env!("LORA_TX_FREQUENCY") of the build
    output_power, \* lora_task's output_power (0 before it is bound)
    frequency     \* lora_task's frequency (0 before it is bound)

\* what no step after the start of lora_task changes
cfgvars == << power_str, freq_str, output_power, frequency >>

bvars == << ble_to_lora, lora_to_ble, bpc, nbuf, lpc, lmsg, txbuf, txpower,
            radio, airCount, bleCount, dataReceived, acksSent, notified,
            bridgedTx, ev, cfgvars >>

Event(act, send, m) == [act |-> act, send |-> send, msg |-> m, at |-> lpc]

\* the state before either task is spawned: empty channels (bin/main.rs: Channel::new())
BridgeStart ==
    /\ ble_to_lora = << >>
    /\ lora_to_ble = << >>
    /\ bpc = "init"
    /\ nbuf = << >>
    /\ lpc = "init"
    /\ lmsg = NoMsg
    /\ txbuf = << >>
    /\ txpower = << >>
    /\ radio = "off"
    /\ airCount = 0
    /\ bleCount = 0
    /\ dataReceived = 0
    /\ acksSent = 0
    /\ notified = 0
    /\ bridgedTx = 0
    /\ ev = Event("none", "none", NoMsg)
    /\ output_power = 0
    /\ frequency = 0

\* a build with neither variable set in its environment
BridgeInit ==
    /\ BridgeStart
    /\ power_str = None
    /\ freq_str = None

\* ------------------------------------------------------------------------
\* The codec as a state machine: one call of serialize on a message, then
\* deserialize on the bytes written, then serialize again; or one call of
\* deserialize on a raw frame.
\* ------------------------------------------------------------------------

VARIABLES
    cpc,    \* where the codec run is: "start", "encoded", "decoded", "reencoded", "rawdecoded"
    msg,    \* the message handed to serialize (NoMsg in a raw run)
    dst,    \* the destination buffer before the call
    raw,    \* the raw frame handed to deserialize (empty in a message run)
    enc,    \* what serialize returned, and the buffer afterwards
    dec,    \* what deserialize returned
    enc2    \* what serialize returned for the decoded message

cvars == << cpc, msg, dst, raw, enc, dec, enc2 >>

NoEnc == [ok |-> FALSE, len |-> 0, err |-> "not called", buf |-> << >>,
          panic |-> FALSE]

NoDec == [ok |-> FALSE, msg |-> NoMsg, err |-> "not called", reads |-> {},
          panic |-> FALSE]

CodecInit ==
    /\ cpc = "start"
    /\ \/ /\ msg \in Messages
          /\ dst \in {Buffer(n) : n \in DstSizes}
          /\ raw = << >>
       \/ /\ msg = NoMsg
          /\ dst = << >>
          /\ raw \in RawFrames
    /\ enc = NoEnc
    /\ dec = NoDec
    /\ enc2 = NoEnc
    /\ BridgeInit

\* msg.serialize(&mut dst)
Serialize ==
    /\ cpc = "start"
    /\ msg # NoMsg
    /\ enc' = serialize(msg, dst)
    /\ cpc' = "encoded"
    /\ UNCHANGED << msg, dst, raw, dec, enc2 >>
    /\ UNCHANGED bvars

\* Message::deserialize(&dst[..len]) after a successful serialize
DeserializeEncoded ==
    /\ cpc = "encoded"
    /\ enc.ok
    /\ dec' = deserialize(SubSeq(enc.buf, 1, enc.len))
    /\ cpc' = "decoded"
    /\ UNCHANGED << msg, dst, raw, enc, enc2 >>
    /\ UNCHANGED bvars

\* the decoded message serialized again into a fresh buffer of the same size
Reserialize ==
    /\ cpc = "decoded"
    /\ dec.ok
    /\ enc2' = serialize(dec.msg, dst)
    /\ cpc' = "reencoded"
    /\ UNCHANGED << msg, dst, raw, enc, dec >>
    /\ UNCHANGED bvars

\* Message::deserialize(raw)
DeserializeRaw ==
    /\ cpc = "start"
    /\ msg = NoMsg
    /\ dec' = deserialize(raw)
    /\ cpc' = "rawdecoded"
    /\ UNCHANGED << msg, dst, raw, enc, enc2 >>
    /\ UNCHANGED bvars

CodecNext == Serialize \/ DeserializeEncoded \/ Reserialize \/ DeserializeRaw

vars == << cvars, bvars >>

SpecCodec == CodecInit /\ [][CodecNext]_vars

\* ------------------------------------------------------------------------
\* The bridge: inputs
\* ------------------------------------------------------------------------

\* wire frames of the peers, sequence number in the second byte:
\* Text "OK", Text "HELP", Gps{lat: 37774200, lon: -122419200},
\* Gps{lat: -1, lon: i32::MIN}, Ack
TextFrameOK(seq) == << 1, seq, 2, 2, 60, 176 >>

TextFrameHELP(seq) == << 1, seq, 4, 3, 32, 83, 16 >>

GpsFrameSF(seq) == << 2, seq, 120, 99, 64, 2, 0, 8, 180, 248 >>

GpsFrameEdge(seq) == << 2, seq, 255, 255, 255, 255, 0, 0, 0, 128 >>

AckFrame(seq) == << 3, seq >>

\* a complete Text frame declaring 51 chars in 39 packed bytes (43 bytes)
LongTextFrame(seq) == RawFrame(1, seq, 51, 39, 43, 0)

\* the k-th frame the remote bridge sends: Text, Gps, the Gps frame again,
\* Ack, a 51-char Text, and so on; the first is Text{seq: 7, "OK"}
AirSeq(k) == 6 + k

AirKinds == << "text", "gps", "dup", "ack", "long" >>

AirFrameOf(k) ==
    LET kind == AirKinds[((k - 1) % Len(AirKinds)) + 1]
    IN  CASE kind = "text" -> TextFrameOK(AirSeq(k))
          [] kind = "gps" -> GpsFrameSF(AirSeq(k))
          [] kind = "dup" -> GpsFrameSF(AirSeq(k - 1))
          [] kind = "ack" -> AckFrame(AirSeq(k))
          [] OTHER -> LongTextFrame(AirSeq(k))

AirFrames == [k \in 1..MaxAir |-> AirFrameOf(k)]

\* the k-th decodable payload the phone writes to the RX attribute; the
\* first is Text{seq: 5, "HELP"}
BleSeq(k) == 4 + k

BleKinds == << "text", "long", "gps", "ack" >>

BleFrameOf(k) ==
    LET kind == BleKinds[((k - 1) % Len(BleKinds)) + 1]
    IN  CASE kind = "text" -> TextFrameHELP(BleSeq(k))
          [] kind = "long" -> LongTextFrame(BleSeq(k))
          [] kind = "gps" -> GpsFrameEdge(BleSeq(k))
          [] OTHER -> AckFrame(BleSeq(k))

BleFrames == [k \in 1..MaxWrites |-> BleFrameOf(k)]

\* payloads deserialize rejects: empty, unknown tag, truncated header,
\* truncated Gps, too few packed bytes, more chars than the string holds
GarbageFrames ==
    { << >>, << 9, 1 >>, << 1, 7, 3 >>, << 2, 1, 0 >>,
      RawFrame(1, 7, 3, 2, 6, 0), RawFrame(1, 7, 66, 49, 53, 0) }

\* every frame a task is handed in a run
BridgeFrames ==
    {BleFrames[k] : k \in 1..MaxWrites} \cup {AirFrames[k] : k \in 1..MaxAir}
      \cup GarbageFrames

\* Message::deserialize on each of them
DecodeTable == { << f, deserialize(f) >> : f \in BridgeFrames }

Decode(frame) == (CHOOSE p \in DecodeTable : p[1] = frame)[2]

\* every message a task serializes in a run: the decoded ones, their Acks
BridgeMessages ==
    UNION {{p[2].msg, AckMessage(p[2].msg.seq)} : p \in DecodeTable}

\* Message::serialize into a zeroed 64-byte buffer on each of them
EncodeTable == { << m, serialize(m, Buffer(BUF_SIZE)) >> : m \in BridgeMessages }

Encode(m) == (CHOOSE p \in EncodeTable : p[1] = m)[2]

\* ------------------------------------------------------------------------
\* embassy_sync Channel, as the tasks use it
\* ------------------------------------------------------------------------

\* try_send on a channel that grows with every message
TrySendUnbounded(q, cap, m) == [ok |-> TRUE, q |-> Append(q, m)]

\* try_send on a full channel with the oldest message making room
TrySendDropOldest(q, cap, m) ==
    IF Len(q) < cap THEN [ok |-> TRUE, q |-> Append(q, m)]
    ELSE [ok |-> TRUE, q |-> Append(Tail(q), m)]

\* try_send putting the message in front of the ones already queued
TrySendFront(q, cap, m) ==
    IF Len(q) < cap THEN [ok |-> TRUE, q |-> << m >> \o q]
    ELSE [ok |-> FALSE, q |-> q]

\* Sender::try_send: Err(Full) and no change when the channel holds cap messages
TrySend(q, cap, m) ==
    IF Len(q) < cap THEN [ok |-> TRUE, q |-> Append(q, m)]
    ELSE [ok |-> FALSE, q |-> q]

\* try_receive handing out the newest message
TryReceiveNewest(q) ==
    IF q = << >> THEN [ok |-> FALSE, msg |-> NoMsg, q |-> q]
    ELSE [ok |-> TRUE, msg |-> q[Len(q)], q |-> SubSeq(q, 1, Len(q) - 1)]

\* Receiver::try_receive: the head, or Err(Empty)
TryReceive(q) ==
    IF q = << >> THEN [ok |-> FALSE, msg |-> NoMsg, q |-> q]
    ELSE [ok |-> TRUE, msg |-> Head(q), q |-> Tail(q)]

SendResult(r) == IF r.ok THEN "ok" ELSE "full"

\* ------------------------------------------------------------------------
\* ble.rs: the short-range task
\* ------------------------------------------------------------------------

CodecIdle ==
    /\ cpc = "idle"
    /\ msg = NoMsg
    /\ dst = << >>
    /\ raw = << >>
    /\ enc = NoEnc
    /\ dec = NoDec
    /\ enc2 = NoEnc

\* ble_task up to the advertising loop: connector, server, advertising data;
\* a failure of any of them ends the task
BleInit ==
    /\ bpc = "init"
    /\ \E ok \in BOOLEAN : bpc' = IF ok THEN "advertising" ELSE "dead"
    /\ ev' = Event("BleInit", "none", NoMsg)
    /\ UNCHANGED << ble_to_lora, lora_to_ble, nbuf, lpc, lmsg, txbuf, txpower, radio,
                    airCount, bleCount, dataReceived, acksSent,
                    notified, bridgedTx >>
    /\ UNCHANGED << cvars, cfgvars >>

\* advertise, accept, with_attribute_server: on success gatt_events_task
\* starts, on a failure the loop advertises again
BleConnect ==
    /\ bpc = "advertising"
    /\ \E ok \in BOOLEAN : bpc' = IF ok THEN "waiting" ELSE "advertising"
    /\ ev' = Event("BleConnect", "none", NoMsg)
    /\ UNCHANGED << ble_to_lora, lora_to_ble, nbuf, lpc, lmsg, txbuf, txpower, radio,
                    airCount, bleCount, dataReceived, acksSent,
                    notified, bridgedTx >>
    /\ UNCHANGED << cvars, cfgvars >>

\* a disconnect that resets the inbound channel
BleDisconnectedClear ==
    /\ bpc = "waiting"
    /\ bpc' = "advertising"
    /\ lora_to_ble' = << >>
    /\ ev' = Event("BleDisconnected", "none", NoMsg)
    /\ UNCHANGED << ble_to_lora, nbuf, lpc, lmsg, txbuf, txpower, radio,
                    airCount, bleCount, dataReceived, acksSent,
                    notified, bridgedTx >>
    /\ UNCHANGED << cvars, cfgvars >>

\* GattConnectionEvent::Disconnected: break out of the loop, advertise again
BleDisconnected ==
    /\ bpc = "waiting"
    /\ bpc' = "advertising"
    /\ ev' = Event("BleDisconnected", "none", NoMsg)
    /\ UNCHANGED << ble_to_lora, lora_to_ble, nbuf, lpc, lmsg, txbuf, txpower, radio,
                    airCount, bleCount, dataReceived, acksSent,
                    notified, bridgedTx >>
    /\ UNCHANGED << cvars, cfgvars >>

\* the end of every iteration that did not break: try_receive on the inbound
\* channel, serialize into a 64-byte buffer, start notify with that buffer
BleNotify(r, ser) ==
    /\ lora_to_ble' = r.q
    /\ IF r.ok /\ ser.ok
       THEN bpc' = "notifying" /\ nbuf' = ser.buf /\ notified' = notified + 1
       ELSE bpc' = "waiting" /\ nbuf' = << >> /\ notified' = notified

BlePollReceived(r) == BleNotify(r, Encode(r.msg))

\* a poll that empties the inbound channel and notifies its head
BlePollDrain == BlePollReceived([TryReceive(lora_to_ble) EXCEPT !.q = << >>])

\* a poll that notifies the head of the inbound channel and leaves it there
BlePollPeek == BlePollReceived([TryReceive(lora_to_ble) EXCEPT !.q = lora_to_ble])

BlePoll == BlePollReceived(TryReceive(lora_to_ble))

\* GattEvent::Write on the RX handle with the given payload, then the poll
BleWriteRxDecoded(d, count) ==
    LET r == TrySend(ble_to_lora, OUT_CAP, d.msg)
    IN  /\ bpc = "waiting"
        /\ bleCount' = count
        /\ IF d.ok
           THEN /\ ble_to_lora' = r.q
                /\ ev' = Event("BleWriteRx", SendResult(r), d.msg)
           ELSE /\ ble_to_lora' = ble_to_lora
                /\ ev' = Event("BleWriteRx", "none", NoMsg)
        /\ BlePoll
        /\ UNCHANGED << lpc, lmsg, txbuf, txpower, radio, airCount, dataReceived,
                        acksSent, bridgedTx >>
        /\ UNCHANGED << cvars, cfgvars >>

BleWriteRxWith(payload, count) == BleWriteRxDecoded(Decode(payload), count)

\* a write to the RX attribute: the phone's next frame, or a payload that
\* does not decode
BleWriteRx ==
    \/ /\ bleCount < MaxWrites
       /\ BleWriteRxWith(BleFrames[bleCount + 1], bleCount + 1)
    \/ \E g \in GarbageFrames : BleWriteRxWith(g, bleCount)

\* every GATT event handled as a write of Text{seq: 5, "HELP"} to RX
BleOtherEventForwarding ==
    /\ bpc = "waiting"
    /\ \E kind \in {"BleWriteOther", "BleRead", "BleOtherGatt", "BleOtherConn"} :
          ev' = Event(kind, "none", NoMsg)
    /\ ble_to_lora' =
          TrySend(ble_to_lora, OUT_CAP, TextMessage(5, << 72, 69, 76, 80 >>)).q
    /\ BlePoll
    /\ UNCHANGED << lpc, lmsg, txbuf, txpower, radio, airCount, bleCount, dataReceived, acksSent,
                    bridgedTx >>
    /\ UNCHANGED << cvars, cfgvars >>

\* a write to another attribute, a read, another GATT event, another
\* connection event: nothing but the poll
BleOtherEvent ==
    /\ bpc = "waiting"
    /\ \E kind \in {"BleWriteOther", "BleRead", "BleOtherGatt", "BleOtherConn"} :
          ev' = Event(kind, "none", NoMsg)
    /\ BlePoll
    /\ UNCHANGED << ble_to_lora, lpc, lmsg, txbuf, txpower, radio, airCount, bleCount, dataReceived, acksSent,
                    bridgedTx >>
    /\ UNCHANGED << cvars, cfgvars >>

\* a notify that puts the message back at the head of the inbound channel
\* when it fails
BleNotifyDoneRequeue ==
    /\ bpc = "notifying"
    /\ bpc' = "waiting"
    /\ nbuf' = << >>
    /\ \E ok \in BOOLEAN :
          /\ ev' = Event(IF ok THEN "BleNotifyOk" ELSE "BleNotifyErr", "none", NoMsg)
          /\ lora_to_ble' = IF ok \/ Len(lora_to_ble) >= IN_CAP THEN lora_to_ble
                            ELSE << deserialize(nbuf).msg >> \o lora_to_ble
    /\ UNCHANGED << ble_to_lora, lpc, lmsg, txbuf, txpower, radio,
                    airCount, bleCount, dataReceived, acksSent,
                    notified, bridgedTx >>
    /\ UNCHANGED << cvars, cfgvars >>

\* tx.notify(conn, &buf) returns, Ok or Err: back to conn.next()
BleNotifyDone ==
    /\ bpc = "notifying"
    /\ bpc' = "waiting"
    /\ nbuf' = << >>
    /\ \E ok \in BOOLEAN :
          ev' = Event(IF ok THEN "BleNotifyOk" ELSE "BleNotifyErr", "none", NoMsg)
    /\ UNCHANGED << ble_to_lora, lora_to_ble, lpc, lmsg, txbuf, txpower, radio,
                    airCount, bleCount, dataReceived, acksSent,
                    notified, bridgedTx >>
    /\ UNCHANGED << cvars, cfgvars >>

\* ------------------------------------------------------------------------
\* lora.rs: the long-range task
\* ------------------------------------------------------------------------

\* a supervisor that starts lora_task again after it has returned
LoraInitRestarted ==
    /\ lpc \in {"init", "dead"}
    /\ \E fail \in InitSteps \cup {"none"} :
          /\ lpc' = IF fail = "none" THEN "race" ELSE "dead"
          /\ radio' = IF fail = "none" THEN "rx" ELSE "off"
          /\ IF fail \in EarlySteps
             THEN UNCHANGED << output_power, frequency >>
             ELSE /\ output_power' = ResolvePower(power_str)
                  /\ frequency' = ResolveFrequency(freq_str)
    /\ ev' = Event("LoraInit", "none", NoMsg)
    /\ UNCHANGED << ble_to_lora, lora_to_ble, bpc, nbuf, lmsg, txbuf, txpower,
                    airCount, bleCount, dataReceived, acksSent,
                    notified, bridgedTx >>
    /\ UNCHANGED << cvars, power_str, freq_str >>

\* lora_task up to the loop: interface, radio, init, parameters, first
\* prepare_for_rx; a failure of any of them ends the task
LoraInit ==
    /\ lpc = "init"
    /\ \E fail \in InitSteps \cup {"none"} :
          /\ lpc' = IF fail = "none" THEN "race" ELSE "dead"
          /\ radio' = IF fail = "none" THEN "rx" ELSE "off"
          /\ IF fail \in EarlySteps
             THEN UNCHANGED << output_power, frequency >>
             ELSE /\ output_power' = ResolvePower(power_str)
                  /\ frequency' = ResolveFrequency(freq_str)
    /\ ev' = Event("LoraInit", "none", NoMsg)
    /\ UNCHANGED << ble_to_lora, lora_to_ble, bpc, nbuf, lmsg, txbuf, txpower,
                    airCount, bleCount, dataReceived, acksSent,
                    notified, bridgedTx >>
    /\ UNCHANGED << cvars, power_str, freq_str >>

\* the race entered while prepare_for_rx is still awaited
AtRaceOrRearming == lpc \in {"race", "select", "rearm"}

\* the task is at select(ble_recv, lora_recv): about to poll it, or suspended
\* in it
AtRace == lpc \in {"race", "select"}

\* the first poll of select finds the outbound channel empty and no frame
\* received: the task is suspended with the receive wait pending
LoraSelectPending ==
    /\ lpc = "race"
    /\ ble_to_lora = << >>
    /\ lpc' = "select"
    /\ ev' = Event("LoraSelectPending", "none", NoMsg)
    /\ UNCHANGED << ble_to_lora, lora_to_ble, bpc, nbuf, lmsg, txbuf, txpower, radio,
                    airCount, bleCount, dataReceived, acksSent,
                    notified, bridgedTx >>
    /\ UNCHANGED << cvars, cfgvars >>

\* Either::First taking every message the outbound channel holds and
\* transmitting only the first
LoraSerializedDrain(m, ser) ==
    /\ ble_to_lora' = << >>
    /\ IF ser.ok
       THEN /\ lpc' = "tx_prepare"
            /\ lmsg' = m
            /\ txbuf' = SubSeq(ser.buf, 1, ser.len)
            /\ txpower' = << output_power >>
            /\ bridgedTx' = bridgedTx + 1
       ELSE /\ lpc' = "race"
            /\ lmsg' = NoMsg
            /\ txbuf' = << >>
            /\ txpower' = << >>
            /\ bridgedTx' = bridgedTx
    /\ ev' = Event(IF ser.ok THEN "LoraDequeue" ELSE "LoraDequeueErr", "none", m)

\* Either::First: a message from the outbound channel; serialize it and
\* start prepare_for_tx, or log the serialize error
LoraSerialized(m, ser) ==
    /\ ble_to_lora' = Tail(ble_to_lora)
    /\ IF ser.ok
       THEN /\ lpc' = "tx_prepare"
            /\ lmsg' = m
            /\ txbuf' = SubSeq(ser.buf, 1, ser.len)
            /\ txpower' = << output_power >>
            /\ bridgedTx' = bridgedTx + 1
       ELSE /\ lpc' = "race"
            /\ lmsg' = NoMsg
            /\ txbuf' = << >>
            /\ txpower' = << >>
            /\ bridgedTx' = bridgedTx
    /\ ev' = Event(IF ser.ok THEN "LoraDequeue" ELSE "LoraDequeueErr", "none", m)

LoraReceived(m) == LoraSerialized(m, Encode(m))

LoraDequeue ==
    /\ AtRace
    /\ ble_to_lora # << >>
    /\ LoraReceived(Head(ble_to_lora))
    /\ UNCHANGED << lora_to_ble, bpc, nbuf, radio, airCount, bleCount, dataReceived, acksSent,
                    notified >>
    /\ UNCHANGED << cvars, cfgvars >>

\* prepare_for_tx of a bridged message returns: start tx, or call
\* prepare_for_tx with the same frame again
LoraPrepareTxRetry ==
    /\ lpc = "tx_prepare"
    /\ \E ok \in BOOLEAN :
          /\ lpc' = IF ok THEN "tx" ELSE "tx_prepare"
          /\ radio' = IF ok THEN "tx_prepared" ELSE "tx_prepare_failed"
          /\ ev' = Event(IF ok THEN "LoraPrepareTxOk" ELSE "LoraPrepareTxErr",
                         "none", lmsg)
    /\ UNCHANGED << lmsg, txbuf, txpower >>
    /\ UNCHANGED << ble_to_lora, lora_to_ble, bpc, nbuf, airCount, bleCount,
                    dataReceived, acksSent,
                    notified, bridgedTx >>
    /\ UNCHANGED << cvars, cfgvars >>

\* prepare_for_tx of a bridged message returns: start tx, or log the error
LoraPrepareTxDone ==
    /\ lpc = "tx_prepare"
    /\ \E ok \in BOOLEAN :
          /\ lpc' = IF ok THEN "tx" ELSE "race"
          /\ radio' = IF ok THEN "tx_prepared" ELSE "tx_prepare_failed"
          /\ lmsg' = IF ok THEN lmsg ELSE NoMsg
          /\ txbuf' = IF ok THEN txbuf ELSE << >>
          /\ txpower' = IF ok THEN txpower ELSE << >>
          /\ ev' = Event(IF ok THEN "LoraPrepareTxOk" ELSE "LoraPrepareTxErr",
                         "none", lmsg)
    /\ UNCHANGED << ble_to_lora, lora_to_ble, bpc, nbuf, airCount, bleCount, dataReceived, acksSent,
                    notified, bridgedTx >>
    /\ UNCHANGED << cvars, cfgvars >>

\* tx of a bridged message returns: start prepare_for_rx, or log the error
LoraTxDone ==
    /\ lpc = "tx"
    /\ \E ok \in BOOLEAN :
          /\ lpc' = IF ok THEN "rearm" ELSE "race"
          /\ radio' = IF ok THEN "tx_done" ELSE "tx_failed"
          /\ ev' = Event(IF ok THEN "LoraTxOk" ELSE "LoraTxErr", "none", lmsg)
    /\ lmsg' = NoMsg
    /\ txbuf' = << >>
    /\ txpower' = << >>
    /\ UNCHANGED << ble_to_lora, lora_to_ble, bpc, nbuf, airCount, bleCount, dataReceived, acksSent,
                    notified, bridgedTx >>
    /\ UNCHANGED << cvars, cfgvars >>

\* prepare_for_rx after a bridged message returns, Ok or Err: next iteration
LoraRearmDone ==
    /\ lpc = "rearm"
    /\ lpc' = "race"
    /\ \E ok \in BOOLEAN :
          /\ radio' = IF ok THEN "rx" ELSE "rx_failed"
          /\ ev' = Event(IF ok THEN "LoraRearmOk" ELSE "LoraRearmErr", "none", NoMsg)
    /\ UNCHANGED << ble_to_lora, lora_to_ble, bpc, nbuf, lmsg, txbuf, txpower,
                    airCount, bleCount, dataReceived, acksSent,
                    notified, bridgedTx >>
    /\ UNCHANGED << cvars, cfgvars >>

\* lora_to_ble.send(msg).await at the end of a receive iteration: the task
\* waits while the channel is full
LoraForwardBlocking(act) ==
    /\ Len(lora_to_ble) < IN_CAP
    /\ lora_to_ble' = Append(lora_to_ble, lmsg)
    /\ ev' = Event(act, "ok", lmsg)
    /\ lpc' = "race"
    /\ lmsg' = NoMsg
    /\ txbuf' = << >>
    /\ txpower' = << >>

\* a forward that skips a message equal to one the inbound channel holds
LoraForwardDedup(act) ==
    LET dup == \E i \in DOMAIN lora_to_ble : lora_to_ble[i] = lmsg
        r == TrySend(lora_to_ble, IN_CAP, lmsg)
    IN  /\ lora_to_ble' = IF dup THEN lora_to_ble ELSE r.q
        /\ ev' = Event(act, IF dup THEN "ok" ELSE SendResult(r), lmsg)
        /\ lpc' = "race"
        /\ lmsg' = NoMsg
        /\ txbuf' = << >>
        /\ txpower' = << >>

\* lora_to_ble.try_send(msg) at the end of a receive iteration
LoraForward(act) ==
    LET r == TrySend(lora_to_ble, IN_CAP, lmsg)
    IN  /\ lora_to_ble' = r.q
        /\ ev' = Event(act, SendResult(r), lmsg)
        /\ lpc' = "race"
        /\ lmsg' = NoMsg
        /\ txbuf' = << >>
        /\ txpower' = << >>

\* the receive arm acknowledging a Text or Gps message only when the inbound
\* channel has room for it
LoraRxAckedIfRoom(d, ser, count) ==
        /\ AtRace
        /\ airCount' = count
        /\ IF ~d.ok
           THEN /\ ev' = Event("LoraRxUndecodable", "none", NoMsg)
                /\ lpc' = "race"
                /\ UNCHANGED << lora_to_ble, lmsg, txbuf, txpower, dataReceived, acksSent >>
           ELSE IF d.msg.type = "Ack" \/ ~ser.ok \/ Len(lora_to_ble) >= IN_CAP
           THEN LET r == TrySend(lora_to_ble, IN_CAP, d.msg)
                IN  /\ lora_to_ble' = r.q
                    /\ ev' = Event(IF d.msg.type = "Ack" THEN "LoraRxAck"
                                   ELSE "LoraRxDataNoAck", SendResult(r), d.msg)
                    /\ lpc' = "race"
                    /\ dataReceived' = dataReceived + (IF d.msg.type = "Ack" THEN 0 ELSE 1)
                    /\ UNCHANGED << lmsg, txbuf, txpower, acksSent >>
           ELSE /\ lpc' = "ack_prepare"
                /\ lmsg' = d.msg
                /\ txbuf' = SubSeq(ser.buf, 1, ser.len)
                /\ txpower' = << output_power >>
                /\ ev' = Event("LoraRxData", "none", d.msg)
                /\ dataReceived' = dataReceived + 1
                /\ acksSent' = acksSent + 1
                /\ UNCHANGED lora_to_ble
        /\ UNCHANGED << ble_to_lora, bpc, nbuf, radio, bleCount,
                    notified, bridgedTx >>
        /\ UNCHANGED << cvars, cfgvars >>

\* the receive arm acknowledging every message it decodes, an Ack included
LoraRxAckedReplying(d, ser, count) ==
        /\ AtRace
        /\ airCount' = count
        /\ IF ~d.ok
           THEN /\ ev' = Event("LoraRxUndecodable", "none", NoMsg)
                /\ lpc' = "race"
                /\ UNCHANGED << lora_to_ble, lmsg, txbuf, txpower, dataReceived, acksSent >>
           ELSE /\ lpc' = "ack_prepare"
                /\ lmsg' = d.msg
                /\ txbuf' = SubSeq(ser.buf, 1, ser.len)
                /\ txpower' = << output_power >>
                /\ ev' = Event("LoraRxData", "none", d.msg)
                /\ dataReceived' = dataReceived + (IF d.msg.type = "Ack" THEN 0 ELSE 1)
                /\ acksSent' = acksSent + 1
                /\ UNCHANGED lora_to_ble
        /\ UNCHANGED << ble_to_lora, bpc, nbuf, radio, bleCount,
                    notified, bridgedTx >>
        /\ UNCHANGED << cvars, cfgvars >>

\* Either::Second(Ok) with the given frame in rx_buffer: deserialize; a Text
\* or Gps message starts the transmission of its Ack, an Ack is forwarded
LoraRxAcked(d, ser, count) ==
        /\ AtRace
        /\ airCount' = count
        /\ IF ~d.ok
           THEN /\ ev' = Event("LoraRxUndecodable", "none", NoMsg)
                /\ lpc' = "race"
                /\ UNCHANGED << lora_to_ble, lmsg, txbuf, txpower, dataReceived, acksSent >>
           ELSE IF d.msg.type = "Ack"
           THEN LET r == TrySend(lora_to_ble, IN_CAP, d.msg)
                IN  /\ lora_to_ble' = r.q
                    /\ ev' = Event("LoraRxAck", SendResult(r), d.msg)
                    /\ lpc' = "race"
                    /\ UNCHANGED << lmsg, txbuf, txpower, dataReceived, acksSent >>
           ELSE IF ser.ok
           THEN /\ lpc' = "ack_prepare"
                /\ lmsg' = d.msg
                /\ txbuf' = SubSeq(ser.buf, 1, ser.len)
                /\ txpower' = << output_power >>
                /\ ev' = Event("LoraRxData", "none", d.msg)
                /\ dataReceived' = dataReceived + 1
                /\ acksSent' = acksSent + 1
                /\ UNCHANGED lora_to_ble
           ELSE LET r == TrySend(lora_to_ble, IN_CAP, d.msg)
                IN  /\ lora_to_ble' = r.q
                    /\ ev' = Event("LoraRxDataNoAck", SendResult(r), d.msg)
                    /\ lpc' = "race"
                    /\ dataReceived' = dataReceived + 1
                    /\ UNCHANGED << lmsg, txbuf, txpower, acksSent >>
        /\ UNCHANGED << ble_to_lora, bpc, nbuf, radio, bleCount,
                    notified, bridgedTx >>
        /\ UNCHANGED << cvars, cfgvars >>

\* the received message itself transmitted back in place of its Ack
LoraRxDecodedEcho(d, count) == LoraRxAcked(d, Encode(d.msg), count)

LoraRxDecoded(d, count) == LoraRxAcked(d, Encode(AckMessage(d.msg.seq)), count)

\* a frame that does not decode taken for Ack{seq: 0}
LoraRxFrameLenient(frame, count) ==
    LoraRxDecoded(LET d == Decode(frame)
                  IN  IF d.ok THEN d ELSE [ok |-> TRUE, msg |-> AckMessage(0)],
                  count)

LoraRxFrame(frame, count) == LoraRxDecoded(Decode(frame), count)

\* select polls ble_recv first and lora_recv only when ble_recv is pending:
\* the receive wins only while the outbound channel is empty
ReceiveCanWin == ble_to_lora = << >>

\* Either::Second: the remote bridge's next frame, a frame that does not
\* decode, or a receive error of the transceiver
LoraRx ==
    \/ /\ ReceiveCanWin
       /\ airCount < MaxAir
       /\ LoraRxFrame(AirFrames[airCount + 1], airCount + 1)
    \/ /\ ReceiveCanWin
       /\ \E g \in GarbageFrames : LoraRxFrame(g, airCount)
    \/ /\ AtRace
       /\ ReceiveCanWin
       /\ lpc' = "race"
       /\ ev' = Event("LoraRxErr", "none", NoMsg)
       /\ UNCHANGED << ble_to_lora, lora_to_ble, bpc, nbuf, lmsg, txbuf, txpower,
                       radio, airCount, bleCount, dataReceived, acksSent,
                    notified, bridgedTx >>
       /\ UNCHANGED << cvars, cfgvars >>

\* prepare_for_tx of the Ack returns: start tx, or log and forward
LoraAckPrepareDone ==
    /\ lpc = "ack_prepare"
    /\ \E ok \in BOOLEAN :
          IF ok
          THEN /\ lpc' = "ack_tx"
               /\ radio' = "tx_prepared"
               /\ ev' = Event("LoraAckPrepareOk", "none", lmsg)
               /\ UNCHANGED << lora_to_ble, lmsg, txbuf, txpower >>
          ELSE /\ radio' = "tx_prepare_failed"
               /\ LoraForward("LoraAckPrepareErr")
    /\ UNCHANGED << ble_to_lora, bpc, nbuf, airCount, bleCount, dataReceived, acksSent,
                    notified, bridgedTx >>
    /\ UNCHANGED << cvars, cfgvars >>

\* tx of the Ack returns: start prepare_for_rx, or log and forward
LoraAckTxDone ==
    /\ lpc = "ack_tx"
    /\ \E ok \in BOOLEAN :
          IF ok
          THEN /\ lpc' = "ack_rearm"
               /\ radio' = "tx_done"
               /\ ev' = Event("LoraAckTxOk", "none", lmsg)
               /\ UNCHANGED << lora_to_ble, lmsg, txbuf, txpower >>
          ELSE /\ radio' = "tx_failed"
               /\ LoraForward("LoraAckTxErr")
    /\ UNCHANGED << ble_to_lora, bpc, nbuf, airCount, bleCount, dataReceived, acksSent,
                    notified, bridgedTx >>
    /\ UNCHANGED << cvars, cfgvars >>

\* prepare_for_rx after the Ack returns, Ok or Err: forward the message
LoraAckRearmDone ==
    /\ lpc = "ack_rearm"
    /\ \E ok \in BOOLEAN :
          /\ radio' = IF ok THEN "rx" ELSE "rx_failed"
          /\ LoraForward(IF ok THEN "LoraAckRearmOk" ELSE "LoraAckRearmErr")
    /\ UNCHANGED << ble_to_lora, bpc, nbuf, airCount, bleCount, dataReceived, acksSent,
                    notified, bridgedTx >>
    /\ UNCHANGED << cvars, cfgvars >>

Init == CodecIdle /\ BridgeInit

Next ==
    \/ BleInit
    \/ BleConnect
    \/ BleDisconnected
    \/ BleWriteRx
    \/ BleOtherEvent
    \/ BleNotifyDone
    \/ LoraInit
    \/ LoraSelectPending
    \/ LoraDequeue
    \/ LoraPrepareTxDone
    \/ LoraTxDone
    \/ LoraRearmDone
    \/ LoraRx
    \/ LoraAckPrepareDone
    \/ LoraAckTxDone
    \/ LoraAckRearmDone

Spec == Init /\ [][Next]_vars

\* The executor polls every task that was woken, and an awaited driver call
\* returns, Ok or Err: the steps of the tasks that wait for neither the phone
\* nor the remote bridge are taken. The phone's events, connections and the
\* frames on the air are under no obligation to happen.
Fairness ==
    /\ WF_vars(BleInit)
    /\ WF_vars(BleNotifyDone)
    /\ WF_vars(LoraInit)
    /\ WF_vars(LoraSelectPending)
    /\ WF_vars(LoraDequeue)
    /\ WF_vars(LoraPrepareTxDone)
    /\ WF_vars(LoraTxDone)
    /\ WF_vars(LoraRearmDone)
    /\ WF_vars(LoraAckPrepareDone)
    /\ WF_vars(LoraAckTxDone)
    /\ WF_vars(LoraAckRearmDone)

FairSpec == Spec /\ Fairness

\* frames over the air and decodable writes in one run of a configured build
CfgMaxAir == 1

CfgMaxWrites == 1

\* the two tasks of a build whose environment holds any of the values
ConfigInit ==
    /\ CodecIdle
    /\ BridgeStart
    /\ power_str \in PowerStrings
    /\ freq_str \in FreqStrings

ConfigNext ==
    /\ Next
    /\ airCount' <= CfgMaxAir
    /\ bleCount' <= CfgMaxWrites

SpecConfig == ConfigInit /\ [][ConfigNext]_vars

\* ------------------------------------------------------------------------
\* The codec as the tasks call it: scratch buffers that were used before,
\* frames followed by other bytes, decoded messages encoded again
\* ------------------------------------------------------------------------

\* a destination buffer of n bytes holding what an earlier use left in it
UsedBuffer(n) == [k \in 1..n |-> (165 + 77 * k) % 256]

\* n zero bytes
ZeroPad(n) == [k \in 1..n |-> 0]

\* bytes that follow a frame of n bytes in the slice handed to deserialize:
\* one byte, a Text header, the zeros that fill a 64-byte array
Suffixes(n) ==
    { << 255 >>, << 1, 42, 3, 2 >> }
      \cup (IF n < BUF_SIZE THEN { ZeroPad(BUF_SIZE - n) } ELSE {})

ScratchInit ==
    /\ cpc = "start"
    /\ \/ /\ msg \in Messages
          /\ dst \in {UsedBuffer(n) : n \in DstSizes}
          /\ raw = << >>
       \/ /\ msg = NoMsg
          /\ dst = Buffer(BUF_SIZE)
          /\ raw \in RawFrames
    /\ enc = NoEnc
    /\ dec = NoDec
    /\ enc2 = NoEnc
    /\ BridgeInit

\* Message::deserialize on a slice that holds the encoded frame and more
DeserializePadded ==
    /\ cpc = "encoded"
    /\ enc.ok
    /\ \E x \in Suffixes(enc.len) :
          /\ raw' = SubSeq(enc.buf, 1, enc.len) \o x
          /\ dec' = deserialize(raw')
    /\ cpc' = "paddecoded"
    /\ UNCHANGED << msg, dst, enc, enc2 >>
    /\ UNCHANGED bvars

\* the message deserialize returned for a raw frame, serialized into the
\* 64-byte scratch buffer as the tasks do
ReserializeDecoded ==
    /\ cpc = "rawdecoded"
    /\ dec.ok
    /\ enc2' = serialize(dec.msg, dst)
    /\ cpc' = "rawreencoded"
    /\ UNCHANGED << msg, dst, raw, enc, dec >>
    /\ UNCHANGED bvars

ScratchNext == Serialize \/ DeserializePadded \/ DeserializeRaw \/ ReserializeDecoded

SpecScratch == ScratchInit /\ [][ScratchNext]_vars

\* ------------------------------------------------------------------------
\* bin/main.rs: the binary's own ble_task, gatt_events_task and lora_task.
\* Channels of capacity 1, 512-byte buffers, unwrap in place of the error
\* arms, and send().await in the receive arm. The binary matches
\* Message::Data; the model takes it as the Text and Gps messages.
\* ------------------------------------------------------------------------

\* Channel<CriticalSectionRawMutex, Message, 1>
BIN_CAP == 1

\* let mut buf = [0u8; 512]
BIN_BUF_SIZE == 512

\* frames over the air and decodable writes in one run of the binary
BinMaxAir == 3

BinMaxWrites == 2

\* Message::serialize into a zeroed 512-byte buffer
BinEncodeTable == { << m, serialize(m, Buffer(BIN_BUF_SIZE)) >> : m \in BridgeMessages }

BinEncode(m) == (CHOOSE p \in BinEncodeTable : p[1] = m)[2]

\* unwrap on an Err: the panic handler loops forever and no task runs again
BinPanic == bpc' = "halted" /\ lpc' = "halted"

\* Server::new_with_config and the advertising data, each unwrapped
BinBleInit ==
    /\ bpc = "init"
    /\ \E ok \in BOOLEAN :
          IF ok THEN bpc' = "advertising" /\ lpc' = lpc ELSE BinPanic
    /\ ev' = Event("BleInit", "none", NoMsg)
    /\ UNCHANGED << ble_to_lora, lora_to_ble, nbuf, lmsg, txbuf, txpower, radio,
                    airCount, bleCount, dataReceived, acksSent,
                    notified, bridgedTx >>
    /\ UNCHANGED << cvars, cfgvars >>

\* advertise, accept, with_attribute_server, each unwrapped
BinBleConnect ==
    /\ bpc = "advertising"
    /\ \E ok \in BOOLEAN :
          IF ok THEN bpc' = "waiting" /\ lpc' = lpc ELSE BinPanic
    /\ ev' = Event("BleConnect", "none", NoMsg)
    /\ UNCHANGED << ble_to_lora, lora_to_ble, nbuf, lmsg, txbuf, txpower, radio,
                    airCount, bleCount, dataReceived, acksSent,
                    notified, bridgedTx >>
    /\ UNCHANGED << cvars, cfgvars >>

\* GattConnectionEvent::Disconnected: break, and advertise again
BinBleDisconnected ==
    /\ bpc = "waiting"
    /\ bpc' = "advertising"
    /\ ev' = Event("BleDisconnected", "none", NoMsg)
    /\ UNCHANGED << ble_to_lora, lora_to_ble, nbuf, lpc, lmsg, txbuf, txpower, radio,
                    airCount, bleCount, dataReceived, acksSent,
                    notified, bridgedTx >>
    /\ UNCHANGED << cvars, cfgvars >>

\* the end of a GATT iteration: try_receive, serialize into 512 bytes, copy
\* the frame into a second zeroed 512-byte array and start notify with it
BinBleNotify(r, ser) ==
    /\ lora_to_ble' = r.q
    /\ IF r.ok /\ ser.ok
       THEN /\ bpc' = "notifying"
            /\ nbuf' = CopyInto(Buffer(BIN_BUF_SIZE), 0, SubSeq(ser.buf, 1, ser.len))
            /\ notified' = notified + 1
       ELSE /\ bpc' = "waiting"
            /\ nbuf' = << >>
            /\ notified' = notified

BinBlePoll ==
    LET r == TryReceive(lora_to_ble)
    IN  BinBleNotify(r, BinEncode(r.msg))

\* a write to the RX handle with the given payload, then the poll
BinBleWriteRxDecoded(d, count) ==
    LET r == TrySend(ble_to_lora, BIN_CAP, d.msg)
    IN  /\ bpc = "waiting"
        /\ bleCount' = count
        /\ IF d.ok
           THEN /\ ble_to_lora' = r.q
                /\ ev' = Event("BleWriteRx", SendResult(r), d.msg)
           ELSE /\ ble_to_lora' = ble_to_lora
                /\ ev' = Event("BleWriteRx", "none", NoMsg)
        /\ BinBlePoll
        /\ UNCHANGED << lpc, lmsg, txbuf, txpower, radio, airCount, dataReceived,
                        acksSent, bridgedTx >>
        /\ UNCHANGED << cvars, cfgvars >>

BinBleWriteRx ==
    \/ /\ bleCount < BinMaxWrites
       /\ BinBleWriteRxDecoded(Decode(BleFrames[bleCount + 1]), bleCount + 1)
    \/ \E g \in GarbageFrames : BinBleWriteRxDecoded(Decode(g), bleCount)

\* any other GATT or connection event: nothing but the poll
BinBleOtherEvent ==
    /\ bpc = "waiting"
    /\ \E kind \in {"BleWriteOther", "BleRead", "BleOtherGatt", "BleOtherConn"} :
          ev' = Event(kind, "none", NoMsg)
    /\ BinBlePoll
    /\ UNCHANGED << ble_to_lora, lpc, lmsg, txbuf, txpower, radio, airCount,
                    bleCount, dataReceived, acksSent, bridgedTx >>
    /\ UNCHANGED << cvars, cfgvars >>

\* notify returns; its result is dropped
BinBleNotifyDone ==
    /\ bpc = "notifying"
    /\ bpc' = "waiting"
    /\ nbuf' = << >>
    /\ \E ok \in BOOLEAN :
          ev' = Event(IF ok THEN "BleNotifyOk" ELSE "BleNotifyErr", "none", NoMsg)
    /\ UNCHANGED << ble_to_lora, lora_to_ble, lpc, lmsg, txbuf, txpower, radio,
                    airCount, bleCount, dataReceived, acksSent,
                    notified, bridgedTx >>
    /\ UNCHANGED << cvars, cfgvars >>

\* lora.init, the parameters and the first prepare_for_rx, each unwrapped
BinLoraInit ==
    /\ lpc = "init"
    /\ \E ok \in BOOLEAN :
          IF ok THEN lpc' = "race" /\ bpc' = bpc /\ radio' = "rx"
          ELSE BinPanic /\ radio' = "off"
    /\ ev' = Event("LoraInit", "none", NoMsg)
    /\ UNCHANGED << ble_to_lora, lora_to_ble, nbuf, lmsg, txbuf, txpower,
                    airCount, bleCount, dataReceived, acksSent,
                    notified, bridgedTx >>
    /\ UNCHANGED << cvars, cfgvars >>

\* the first poll of select finds nothing ready
BinLoraSelectPending ==
    /\ lpc = "race"
    /\ ble_to_lora = << >>
    /\ lpc' = "select"
    /\ ev' = Event("LoraSelectPending", "none", NoMsg)
    /\ UNCHANGED << ble_to_lora, lora_to_ble, bpc, nbuf, lmsg, txbuf, txpower, radio,
                    airCount, bleCount, dataReceived, acksSent,
                    notified, bridgedTx >>
    /\ UNCHANGED << cvars, cfgvars >>

\* Either::First: serialize and start prepare_for_tx with power 14; a
\* message that does not serialize is dropped silently
BinLoraSerialized(m, ser) ==
    /\ ble_to_lora' = Tail(ble_to_lora)
    /\ IF ser.ok
       THEN /\ lpc' = "tx_prepare"
            /\ lmsg' = m
            /\ txbuf' = SubSeq(ser.buf, 1, ser.len)
            /\ txpower' = << DEFAULT_POWER >>
            /\ bridgedTx' = bridgedTx + 1
       ELSE /\ lpc' = "race"
            /\ lmsg' = NoMsg
            /\ txbuf' = << >>
            /\ txpower' = << >>
            /\ bridgedTx' = bridgedTx
    /\ ev' = Event(IF ser.ok THEN "LoraDequeue" ELSE "LoraDequeueErr", "none", m)

BinLoraDequeue ==
    /\ AtRace
    /\ ble_to_lora # << >>
    /\ BinLoraSerialized(Head(ble_to_lora), BinEncode(Head(ble_to_lora)))
    /\ UNCHANGED << lora_to_ble, bpc, nbuf, radio, airCount, bleCount, dataReceived,
                    acksSent, notified >>
    /\ UNCHANGED << cvars, cfgvars >>

\* an awaited transceiver call of the given position returns and is
\* unwrapped: on Ok the task goes on to the next position
BinLoraCallDone(pos, next, act) ==
    /\ lpc = pos
    /\ \E ok \in BOOLEAN :
          /\ IF ok THEN lpc' = next /\ bpc' = bpc ELSE BinPanic
          /\ ev' = Event(IF ok THEN act ELSE "LoraPanic", "none", lmsg)
          /\ radio' = IF next \in {"race", "forward"} /\ ok THEN "tx_done" ELSE radio
          /\ IF (next = "race" /\ ok) \/ ~ok
             THEN lmsg' = NoMsg /\ txbuf' = << >> /\ txpower' = << >>
             ELSE IF next = "forward"
             THEN lmsg' = lmsg /\ txbuf' = << >> /\ txpower' = << >>
             ELSE UNCHANGED << lmsg, txbuf, txpower >>
    /\ UNCHANGED << ble_to_lora, lora_to_ble, nbuf, airCount, bleCount,
                    dataReceived, acksSent, notified, bridgedTx >>
    /\ UNCHANGED << cvars, cfgvars >>

\* prepare_for_tx of an outbound message returns
BinLoraPrepareTxDone == BinLoraCallDone("tx_prepare", "tx", "LoraPrepareTxOk")

\* tx of an outbound message returns: next iteration, with no prepare_for_rx
BinLoraTxDone == BinLoraCallDone("tx", "race", "LoraTxOk")

\* prepare_for_tx of the Ack returns
BinLoraAckPrepareDone == BinLoraCallDone("ack_prepare", "ack_tx", "LoraAckPrepareOk")

\* tx of the Ack returns: the message goes to lora_to_ble.send
BinLoraAckTxDone == BinLoraCallDone("ack_tx", "forward", "LoraAckTxOk")

\* Either::Second(Ok) with the given frame: a Data message is acknowledged
\* and then forwarded, an Ack is forwarded, anything else is ignored
BinLoraRxDecoded(d, ser, count) ==
    /\ AtRace
    /\ ReceiveCanWin
    /\ airCount' = count
    /\ IF ~d.ok
       THEN /\ ev' = Event("LoraRxUndecodable", "none", NoMsg)
            /\ lpc' = "race"
            /\ UNCHANGED << lmsg, txbuf, txpower, dataReceived, acksSent >>
       ELSE IF d.msg.type = "Ack" \/ ~ser.ok
       THEN /\ ev' = Event(IF d.msg.type = "Ack" THEN "LoraRxAck" ELSE "LoraRxDataNoAck",
                           "none", d.msg)
            /\ lpc' = "forward"
            /\ lmsg' = d.msg
            /\ dataReceived' = dataReceived + (IF d.msg.type = "Ack" THEN 0 ELSE 1)
            /\ UNCHANGED << txbuf, txpower, acksSent >>
       ELSE /\ ev' = Event("LoraRxData", "none", d.msg)
            /\ lpc' = "ack_prepare"
            /\ lmsg' = d.msg
            /\ txbuf' = SubSeq(ser.buf, 1, ser.len)
            /\ txpower' = << DEFAULT_POWER >>
            /\ dataReceived' = dataReceived + 1
            /\ acksSent' = acksSent + 1
    /\ UNCHANGED << ble_to_lora, lora_to_ble, bpc, nbuf, radio, bleCount,
                    notified, bridgedTx >>
    /\ UNCHANGED << cvars, cfgvars >>

BinLoraRxFrame(frame, count) ==
    LET d == Decode(frame)
    IN  BinLoraRxDecoded(d, BinEncode(AckMessage(d.msg.seq)), count)

\* Either::Second: the remote bridge's next frame, a frame that does not
\* decode, or a receive error, which is ignored
BinLoraRx ==
    \/ /\ airCount < BinMaxAir
       /\ BinLoraRxFrame(AirFrames[airCount + 1], airCount + 1)
    \/ \E g \in GarbageFrames : BinLoraRxFrame(g, airCount)
    \/ /\ AtRace
       /\ ReceiveCanWin
       /\ lpc' = "race"
       /\ ev' = Event("LoraRxErr", "none", NoMsg)
       /\ UNCHANGED << ble_to_lora, lora_to_ble, bpc, nbuf, lmsg, txbuf, txpower,
                       radio, airCount, bleCount, dataReceived, acksSent,
                       notified, bridgedTx >>
       /\ UNCHANGED << cvars, cfgvars >>

\* lora_to_ble.send(msg).await: completes when the channel has room, and
\* waits while it has none
BinLoraForward ==
    /\ lpc = "forward"
    /\ Len(lora_to_ble) < BIN_CAP
    /\ lora_to_ble' = Append(lora_to_ble, lmsg)
    /\ ev' = Event("LoraForward", "ok", lmsg)
    /\ lpc' = "race"
    /\ lmsg' = NoMsg
    /\ UNCHANGED << ble_to_lora, bpc, nbuf, txbuf, txpower, radio, airCount,
                    bleCount, dataReceived, acksSent, notified, bridgedTx >>
    /\ UNCHANGED << cvars, cfgvars >>

BinNext ==
    \/ BinBleInit
    \/ BinBleConnect
    \/ BinBleDisconnected
    \/ BinBleWriteRx
    \/ BinBleOtherEvent
    \/ BinBleNotifyDone
    \/ BinLoraInit
    \/ BinLoraSelectPending
    \/ BinLoraDequeue
    \/ BinLoraPrepareTxDone
    \/ BinLoraTxDone
    \/ BinLoraRx
    \/ BinLoraAckPrepareDone
    \/ BinLoraAckTxDone
    \/ BinLoraForward

SpecBin == Init /\ [][BinNext]_vars

\* The executor polls every task that was woken and an awaited driver call
\* returns; the phone and the remote bridge are under no obligation.
BinFairness ==
    /\ WF_vars(BinBleInit)
    /\ WF_vars(BinBleNotifyDone)
    /\ WF_vars(BinLoraInit)
    /\ WF_vars(BinLoraSelectPending)
    /\ WF_vars(BinLoraDequeue)
    /\ WF_vars(BinLoraPrepareTxDone)
    /\ WF_vars(BinLoraTxDone)
    /\ WF_vars(BinLoraAckPrepareDone)
    /\ WF_vars(BinLoraAckTxDone)
    /\ WF_vars(BinLoraForward)

FairSpecBin == SpecBin /\ BinFairness

\* ------------------------------------------------------------------------
\* Properties of the codec
\* ------------------------------------------------------------------------

\* the uppercase counterpart of a lowercase letter, any other char itself
Upper(ch) == IF ch \in 97..122 THEN ch - 32 ELSE ch

UpperText(t) == [i \in 1..Len(t) |-> Upper(t[i])]

InAlphabet(ch) == \E i \in 1..64 : CHARSET[i] = ch

\* every char, case-folded, is one of the 64 symbols
Encodable(t) == \A i \in 1..Len(t) : InAlphabet(Upper(t[i]))

\* a valid Message of the data model
ValidMessage(m) ==
    /\ m # NoMsg
    /\ m.type = "Text" => (Len(m.text) <= 50 /\ Encodable(m.text))

\* the 6-bit index of an encodable char
AlphabetIndex(ch) == CHOOSE i \in 0..63 : CHARSET[i + 1] = Upper(ch)

\* ceil(L*6/8)
PackedLen(L) == (L * 6 + 7) \div 8

HasLower(t) == \E i \in 1..Len(t) : t[i] \in 97..122

\* C1: round trip. For every valid Message m, deserialize of the bytes
\* serialize(m) wrote returns a Message equal to m (lowercase letters
\* included).
C1_RoundTrip ==
    (cpc = "decoded" /\ ValidMessage(msg)) => (dec.ok /\ dec.msg = msg)

C3_LengthBound ==
    (cpc # "start" /\ msg # NoMsg) =>
      /\ (ValidMessage(msg) /\ Len(dst) = BUF_SIZE) => enc.ok
      /\ enc.ok =>
           CASE msg.type = "Text" ->
                  /\ enc.len = 4 + PackedLen(Len(msg.text))
                  /\ enc.buf[3] = Len(msg.text)
                  /\ enc.buf[4] = PackedLen(Len(msg.text))
             [] msg.type = "Gps" -> enc.len = 10
             [] OTHER -> enc.len = 2

C3_Witness ==
    /\ cpc = "encoded"
    /\ msg.type = "Text"
    /\ Len(msg.text) = 50
    /\ enc.ok
    /\ enc.len = 42
    /\ enc.buf[4] = 38

\* bit j (0-based, most significant first) of the concatenated 6-bit indices
\* of the text t, zero after the last char
RefBit(t, j) ==
    IF j >= 6 * Len(t) THEN 0
    ELSE (AlphabetIndex(t[(j \div 6) + 1]) \div (2 ^ (5 - (j % 6)))) % 2

\* byte k (0-based) of the reference packing
RefByte(t, k) ==
    128 * RefBit(t, 8 * k) + 64 * RefBit(t, 8 * k + 1)
      + 32 * RefBit(t, 8 * k + 2) + 16 * RefBit(t, 8 * k + 3)
      + 8 * RefBit(t, 8 * k + 4) + 4 * RefBit(t, 8 * k + 5)
      + 2 * RefBit(t, 8 * k + 6) + RefBit(t, 8 * k + 7)

\* C4: text bit layout. The bytes serialize writes for a Text message are
\* 0x01, seq, char count, packed length, then the reference packing: char i
\* at bits 6i..6i+5 counted most significant first from byte 4, zero bits
\* after the last char.
C4_TextLayout ==
    (cpc = "encoded" /\ msg.type = "Text" /\ enc.ok) =>
      /\ enc.buf[1] = 1
      /\ enc.buf[2] = msg.seq
      /\ enc.buf[3] = Len(msg.text)
      /\ enc.buf[4] = enc.len - 4
      /\ \A k \in 0..(enc.len - 5) : enc.buf[5 + k] = RefByte(msg.text, k)

C4_Witness ==
    /\ cpc = "encoded"
    /\ msg = TextMessage(42, << 83, 79, 83 >>)
    /\ enc.ok
    /\ SubSeq(enc.buf, 1, enc.len) = << 1, 42, 3, 3, 76, 244, 192 >>

\* b is the 4-byte little-endian two's complement form of the i32 v
IsLeTwosComplement(b, v) ==
    /\ Len(b) = 4
    /\ \A k \in 1..4 : b[k] \in 0..255
    /\ (b[4] >= 128) <=> (v < 0)
    /\ v = b[1] + 256 * b[2] + 65536 * b[3]
             + 16777216 * (IF v < 0 THEN b[4] - 256 ELSE b[4])

\* C5: Gps and Ack layout. serialize(Gps) writes 0x02, seq, lat and lon as
\* 4 bytes little-endian two's complement each, and deserialize reads the
\* same signed values back, the extremes included; serialize(Ack) writes
\* 0x03, seq.
C5_GpsAckLayout ==
    /\ (cpc = "encoded" /\ msg.type = "Gps" /\ enc.ok) =>
          /\ enc.len = 10
          /\ enc.buf[1] = 2
          /\ enc.buf[2] = msg.seq
          /\ IsLeTwosComplement(SubSeq(enc.buf, 3, 6), msg.lat)
          /\ IsLeTwosComplement(SubSeq(enc.buf, 7, 10), msg.lon)
    /\ (cpc = "decoded" /\ msg.type = "Gps") => (dec.ok /\ dec.msg = msg)
    /\ (cpc = "encoded" /\ msg.type = "Ack" /\ enc.ok) =>
          (enc.len = 2 /\ enc.buf[1] = 3 /\ enc.buf[2] = msg.seq)
    /\ (cpc = "encoded" /\ msg.type \in {"Gps", "Ack"} /\ Len(dst) = BUF_SIZE) =>
          enc.ok

C5_Witness ==
    /\ cpc = "decoded"
    /\ msg.type = "Gps"
    /\ msg.lat = MinI32
    /\ msg.lon = MaxI32
    /\ SubSeq(enc.buf, 3, 10) = << 0, 0, 0, 128, 255, 255, 255, 127 >>
    /\ dec.msg.lat = MinI32
    /\ dec.msg.lon = MaxI32

\* C6: oversize rejection. serialize of a Text message fails with the
\* text-too-long error if and only if the text has more than 50 characters,
\* multi-byte characters included, whatever the destination buffer size.
C6_OversizeRejection ==
    (cpc = "encoded" /\ msg.type = "Text") =>
      ((~enc.ok /\ enc.err = "Text too long") <=> (Len(msg.text) > 50))

BufferTooSmallErrors ==
    { "Buffer too small for text message header",
      "Buffer too small for packed text",
      "Buffer too small for GPS message",
      "Buffer too small for ack" }

\* what C8 says of every frame but the Text frames whose char count needs
\* more than the packed bytes declared
MalformedDecodeCommon ==
    /\ ~dec.panic
    /\ \/ dec.ok /\ dec.msg # NoMsg /\ dec.err = ""
       \/ ~dec.ok /\ dec.msg = NoMsg /\ dec.err # ""
    /\ \A i \in dec.reads : i >= 0 /\ i < Len(raw)
    /\ (Len(raw) >= 4 /\ raw[1] = 1) => \A i \in dec.reads : i < 4 + raw[4]
    /\ raw = << >> => dec.err = "Empty buffer"
    /\ (raw # << >> /\ raw[1] = 1 /\ (Len(raw) < 4 \/ Len(raw) < 4 + raw[4]))
          => dec.err \in BufferTooSmallErrors
    /\ (raw # << >> /\ raw[1] = 2 /\ Len(raw) < 10)
          => dec.err \in BufferTooSmallErrors
    /\ (raw # << >> /\ raw[1] = 3 /\ Len(raw) < 2)
          => dec.err \in BufferTooSmallErrors

\* a complete Text frame whose char count needs more bytes than packed_len
NeedsMoreThanPacked ==
    /\ Len(raw) >= 4
    /\ raw[1] = 1
    /\ Len(raw) >= 4 + raw[4]
    /\ PackedLen(raw[3]) > raw[4]

\* C8 as claimed: deserialize of any buffer of 0..64 bytes returns a Message
\* or an error, reads no index at or past the buffer length or past the
\* declared packed region, gives the empty-buffer error for an empty buffer,
\* a buffer-too-small error for a truncated Text, Gps or Ack frame, and the
\* insufficient-packed-data error for every Text frame whose char count
\* needs more than packed_len bytes.
C8_MalformedDecode ==
    cpc = "rawdecoded" =>
      /\ MalformedDecodeCommon
      /\ NeedsMoreThanPacked => dec.err = "Insufficient packed data"

\* C8 amended: as claimed, except that a Text frame whose char count needs
\* more than packed_len bytes gives the insufficient-packed-data error only
\* when char_count <= 64 or packed_len <= 48; with char_count >= 65 and
\* packed_len >= 49 the 65th char does not fit the 64-byte string and the
\* error is the string-capacity one.
C8_MalformedDecodeAmended ==
    cpc = "rawdecoded" =>
      /\ MalformedDecodeCommon
      /\ (NeedsMoreThanPacked /\ (raw[3] <= 64 \/ raw[4] <= 48))
            => dec.err = "Insufficient packed data"
      /\ (NeedsMoreThanPacked /\ raw[3] >= 65 /\ raw[4] >= 49)
            => dec.err = "String capacity exceeded"

C8_Witness ==
    /\ cpc = "rawdecoded"
    /\ NeedsMoreThanPacked
    /\ raw[4] > 0
    /\ Len(raw) > 4 + raw[4]
    /\ (3 + raw[4]) \in dec.reads
    /\ dec.err = "Insufficient packed data"

\* ------------------------------------------------------------------------
\* Properties of the bridge
\* ------------------------------------------------------------------------

\* a Text message has at most 50 chars, each a symbol of the alphabet
WellFormedText(m) ==
    m.type = "Text" =>
        /\ Len(m.text) <= MAX_TEXT_LENGTH
        /\ \A i \in 1..Len(m.text) : InAlphabet(m.text[i])

\* the steps of the long-range task that end in lora_to_ble.try_send
LoraSendActs ==
    { "LoraRxAck", "LoraRxDataNoAck", "LoraAckPrepareErr", "LoraAckTxErr",
      "LoraAckRearmOk", "LoraAckRearmErr" }

\* C9: in every reachable state, every Text message deserialize returned
\* (to the short-range task on a write, to the long-range task on a receive,
\* or in a codec run) and every Text message held in either channel has at
\* most 50 chars, all of them symbols of the alphabet.
C9_TextInvariant ==
    /\ \A i \in 1..Len(ble_to_lora) : WellFormedText(ble_to_lora[i])
    /\ \A i \in 1..Len(lora_to_ble) : WellFormedText(lora_to_ble[i])
    /\ WellFormedText(lmsg)
    /\ WellFormedText(ev.msg)
    /\ dec.ok => WellFormedText(dec.msg)

AckInProgress == lpc \in {"ack_prepare", "ack_tx", "ack_rearm"}

\* C11: a full channel never blocks its producer. The short-range task
\* finishes the handling of every write in the step that handles it, back at
\* conn.next() or at notify; the long-range task that has received a frame
\* always gets back to the top of its loop; both whatever the two channels
\* hold, so a bridge without a phone keeps receiving and acknowledging.
C11_NeverBlocks ==
    /\ [][ev'.act = "BleWriteRx" => bpc' \in {"waiting", "notifying"}]_vars
    /\ [][ev'.act \in {"LoraRxUndecodable", "LoraRxAck", "LoraRxErr"}
              => lpc' = "race"]_vars
    /\ [](AckInProgress => ENABLED (LoraAckPrepareDone \/ LoraAckTxDone
                                       \/ LoraAckRearmDone))
    /\ (AckInProgress ~> lpc = "race")

\* no phone is connected and the inbound channel is full: the transmission
\* of the Ack of one more frame has failed, the frame's message was refused by
\* the channel, and the long-range task is back at the top of its loop
C11_Witness ==
    /\ bpc = "advertising"
    /\ Len(lora_to_ble) = IN_CAP
    /\ lpc = "race"
    /\ ev.act = "LoraAckTxErr"
    /\ ev.send = "full"
    /\ ev.msg.seq = AirSeq(MaxAir)
    /\ airCount = MaxAir

\* q2 is q with one message added at the tail
Enqueued(q, q2) == Len(q2) = Len(q) + 1 /\ SubSeq(q2, 1, Len(q)) = q

\* q2 is q with its head taken
Dequeued(q, q2) == q # << >> /\ q2 = Tail(q)

\* C12: each channel is a FIFO. A step changes a channel by adding one
\* message at the tail or by taking the head; the message the long-range
\* task takes for transmission is the head of the outbound channel, the
\* message the short-range task serializes for notify is the head of the
\* inbound channel. With the peers numbering their frames upwards, what is
\* taken is never newer than what stays behind.
C12_Fifo ==
    [][ /\ \/ ble_to_lora' = ble_to_lora
           \/ Enqueued(ble_to_lora, ble_to_lora') /\ ev'.act = "BleWriteRx"
           \/ /\ Dequeued(ble_to_lora, ble_to_lora')
              /\ ev'.act \in {"LoraDequeue", "LoraDequeueErr"}
              /\ ev'.msg = Head(ble_to_lora)
              /\ ev'.act = "LoraDequeue" => lmsg' = Head(ble_to_lora)
              /\ \A i \in 1..Len(ble_to_lora') :
                    ev'.msg.seq < ble_to_lora'[i].seq
        /\ \/ lora_to_ble' = lora_to_ble
           \/ Enqueued(lora_to_ble, lora_to_ble') /\ ev'.act \in LoraSendActs
           \/ /\ Dequeued(lora_to_ble, lora_to_ble')
              /\ bpc = "waiting"
              /\ bpc' = "notifying" =>
                    /\ nbuf' = Encode(Head(lora_to_ble)).buf
                    /\ nbuf'[2] = Head(lora_to_ble).seq
                    /\ \A i \in 1..Len(lora_to_ble') :
                          nbuf'[2] <= lora_to_ble'[i].seq ]_vars

\* the first message written, Text{seq: 5, "HELP"}, was taken for
\* transmission with later ones behind it, while the third frame received,
\* Gps{seq: 8}, is being notified with later ones behind it
C12_Witness ==
    /\ ev.act = "LoraDequeue"
    /\ ev.msg = TextMessage(5, << 72, 69, 76, 80 >>)
    /\ Len(ble_to_lora) >= 2
    /\ bpc = "notifying"
    /\ SubSeq(nbuf, 1, 10) = GpsFrameSF(8)
    /\ airCount = 5
    /\ Len(lora_to_ble) = 2

\* m is the message the phone's k-th decodable write carries
WrittenMessage(k, m) ==
    LET kind == BleKinds[((k - 1) % Len(BleKinds)) + 1]
    IN  CASE kind = "text" -> m = TextMessage(BleSeq(k), << 72, 69, 76, 80 >>)
          [] kind = "long" -> /\ m.type = "Text"
                              /\ m.seq = BleSeq(k)
                              /\ Len(m.text) = MAX_TEXT_LENGTH + 1
          [] kind = "gps" -> m = GpsMessage(BleSeq(k), -1, MinI32)
          [] OTHER -> m = AckMessage(BleSeq(k))

\* the step handles a write to the RX attribute whose payload deserialize
\* accepted, the outbound channel holding fewer than 5 messages
AcceptedWrite ==
    /\ ev'.act = "BleWriteRx"
    /\ bleCount' = bleCount + 1
    /\ Len(ble_to_lora) < OUT_CAP

\* C13 as stated: a write of a payload deserialize accepts, with fewer than
\* 5 messages in the outbound channel, appends exactly the decoded message
\* at the tail of the outbound channel and changes nothing else in either
\* channel.
C13_WriteToOutbound ==
    [][ AcceptedWrite =>
          /\ WrittenMessage(bleCount', ev'.msg)
          /\ ble_to_lora' = Append(ble_to_lora, ev'.msg)
          /\ lora_to_ble' = lora_to_ble ]_vars

\* C13 amended: such a write appends exactly the decoded message at the tail
\* of the outbound channel, which is otherwise unchanged; the inbound channel
\* keeps its contents except for its head, which the poll that ends the same
\* loop iteration takes when there is one.
C13_WriteToOutboundAmended ==
    [][ AcceptedWrite =>
          /\ WrittenMessage(bleCount', ev'.msg)
          /\ ev'.send = "ok"
          /\ ble_to_lora' = Append(ble_to_lora, ev'.msg)
          /\ lora_to_ble' = IF lora_to_ble = << >> THEN << >>
                            ELSE Tail(lora_to_ble) ]_vars

\* the write of Text{seq: 5, "HELP"} put that message on the outbound channel
\* behind nothing, and the same iteration took Text{seq: 7, "OK"} from the
\* inbound channel for notify
C13_Witness ==
    /\ ev.act = "BleWriteRx"
    /\ ev.send = "ok"
    /\ bleCount = 1
    /\ ble_to_lora = << TextMessage(5, << 72, 69, 76, 80 >>) >>
    /\ bpc = "notifying"
    /\ SubSeq(nbuf, 1, 6) = TextFrameOK(7)

\* the steps that end the handling of a received Text or Gps frame
AckDoneActs ==
    { "LoraAckPrepareErr", "LoraAckTxErr", "LoraAckRearmOk", "LoraAckRearmErr" }

IsData(m) == m.type \in {"Text", "Gps"}

\* C14: a received frame that decodes to Text or Gps with sequence tag s
\* starts one transmission of the 2-byte frame of Ack{seq: s} and leaves the
\* inbound channel alone; the transmission is attempted once; only the step
\* that ends it offers the decoded message, unchanged, to the inbound
\* channel, at the tail when the channel holds fewer than 10 messages.
C14_StoreAckForward ==
    [][ /\ ev'.act # "LoraRxDataNoAck"
        /\ ev'.act = "LoraRxData" =>
              /\ IsData(ev'.msg)
              /\ lmsg' = ev'.msg
              /\ txbuf' = << 3, ev'.msg.seq >>
              /\ lpc' = "ack_prepare"
              /\ acksSent' = acksSent + 1
              /\ lora_to_ble' = lora_to_ble
        /\ acksSent' # acksSent => ev'.act = "LoraRxData"
        /\ (AckInProgress /\ lpc' # lpc) =>
              \/ /\ << lpc, lpc' >> \in { << "ack_prepare", "ack_tx" >>,
                                          << "ack_tx", "ack_rearm" >> }
                 /\ UNCHANGED << lmsg, txbuf, lora_to_ble >>
              \/ /\ lpc' = "race"
                 /\ ev'.act \in AckDoneActs
        /\ ev'.act \in AckDoneActs =>
              /\ AckInProgress
              /\ IsData(lmsg)
              /\ txbuf = << 3, lmsg.seq >>
              /\ ev'.msg = lmsg
              /\ Len(lora_to_ble) < IN_CAP =>
                    lora_to_ble' = Append(lora_to_ble, lmsg)
        /\ (Enqueued(lora_to_ble, lora_to_ble')
              /\ IsData(lora_to_ble'[Len(lora_to_ble')])) =>
              ev'.act \in AckDoneActs ]_vars

\* the frame of Text{seq: 7, "OK"} was received, the frame of Ack{seq: 7}
\* transmitted, receive re-armed, and the message is on the inbound channel
C14_Witness ==
    /\ ev.act = "LoraAckRearmOk"
    /\ ev.send = "ok"
    /\ ev.msg = TextMessage(7, << 79, 75 >>)
    /\ lora_to_ble = << TextMessage(7, << 79, 75 >>) >>
    /\ airCount = 1
    /\ acksSent = 1
    /\ radio = "rx"

\* the step receives the remote bridge's next frame, an Ack frame
ReceivesAckFrame ==
    /\ airCount' = airCount + 1
    /\ AirKinds[(airCount % Len(AirKinds)) + 1] = "ack"

\* C15: a received frame that decodes to Ack starts no transmission: the
\* transceiver gets no command and no payload, the task is back at the top of
\* its loop, and the Ack is only offered to the inbound channel. The task
\* has never started more Ack transmissions than it has received Text and
\* Gps frames.
C15_NoReplyToAck ==
    /\ [][ /\ ReceivesAckFrame => ev'.act = "LoraRxAck"
           /\ ev'.act = "LoraRxAck" =>
                 /\ ev'.msg.type = "Ack"
                 /\ lpc' = "race"
                 /\ UNCHANGED << radio, txbuf, lmsg, acksSent, dataReceived >>
                 /\ \/ ev'.send = "ok" /\ lora_to_ble' = Append(lora_to_ble, ev'.msg)
                    \/ ev'.send = "full" /\ lora_to_ble' = lora_to_ble ]_vars
    /\ [](acksSent <= dataReceived)

\* the fourth frame, Ack{seq: 10}, was received after three Text and Gps
\* frames had been acknowledged: it is on the inbound channel, and the
\* transceiver, re-armed after the third Ack, was given nothing to send
C15_Witness ==
    /\ ev.act = "LoraRxAck"
    /\ ev.send = "ok"
    /\ ev.msg = AckMessage(10)
    /\ airCount = 4
    /\ dataReceived = 3
    /\ acksSent = 3
    /\ lora_to_ble # << >>
    /\ lora_to_ble[Len(lora_to_ble)] = AckMessage(10)
    /\ txbuf = << >>
    /\ radio = "rx"
    /\ lpc = "race"

\* the long-range task is transmitting a message of the outbound channel
TxInProgress == lpc \in {"tx_prepare", "tx", "rearm"}

\* C16: a message taken from the outbound channel is handed to the
\* transceiver at most once. The step that takes it removes it from the
\* channel; a serialize error, a prepare_for_tx error and a tx error each
\* end its handling with the task at the top of its loop holding neither the
\* message nor its frame; the positions of a transmission are passed once,
\* in order; and no step of the long-range task puts a message on the
\* outbound channel.
C16_NoRetry ==
    [][ /\ ev'.act \in {"LoraDequeue", "LoraDequeueErr"} =>
              /\ AtRace
              /\ ev'.msg = Head(ble_to_lora)
              /\ ble_to_lora' = Tail(ble_to_lora)
        /\ ev'.act = "LoraDequeue" =>
              /\ lpc' = "tx_prepare"
              /\ lmsg' = ev'.msg
              /\ txbuf' = SubSeq(Encode(ev'.msg).buf, 1, Encode(ev'.msg).len)
        /\ (lpc' = "tx_prepare" /\ lpc # "tx_prepare") => ev'.act = "LoraDequeue"
        /\ ev'.act \in {"LoraDequeueErr", "LoraPrepareTxErr", "LoraTxErr"} =>
              /\ lpc' = "race"
              /\ lmsg' = NoMsg
              /\ txbuf' = << >>
              /\ lora_to_ble' = lora_to_ble
              /\ ev'.act # "LoraDequeueErr" => ble_to_lora' = ble_to_lora
        /\ (TxInProgress /\ ev'.act # "BleWriteRx") => ble_to_lora' = ble_to_lora
        /\ (TxInProgress /\ lpc' # lpc) =>
              \/ << lpc, lpc' >> = << "tx_prepare", "tx" >> /\ UNCHANGED << lmsg, txbuf >>
              \/ << lpc, lpc' >> = << "tx", "rearm" >> /\ lmsg' = NoMsg /\ txbuf' = << >>
              \/ lpc' = "race" /\ lmsg' = NoMsg /\ txbuf' = << >>
        /\ Enqueued(ble_to_lora, ble_to_lora') => ev'.act = "BleWriteRx" ]_vars

\* the only message written, Text{seq: 5, "HELP"}, was taken, its tx failed,
\* and the task is back at the top of its loop: the message is in neither
\* channel and not with the task
C16_Witness ==
    /\ ev.act = "LoraTxErr"
    /\ ev.msg = TextMessage(5, << 72, 69, 76, 80 >>)
    /\ bleCount = 1
    /\ lpc = "race"
    /\ lmsg = NoMsg
    /\ txbuf = << >>
    /\ radio = "tx_failed"
    /\ ble_to_lora = << >>
    /\ lora_to_ble = << >>

\* C17: whenever the long-range task is at its race point, the last mode
\* command it gave the transceiver was a prepare_for_rx that succeeded.
C17_ReceiveRearmed == AtRace => radio = "rx"

\* the steps in which a receive of the transceiver returns
RxDoneActs ==
    { "LoraRxUndecodable", "LoraRxAck", "LoraRxData", "LoraRxDataNoAck",
      "LoraRxErr" }

\* the steps in which the awaited call of the given position returns
DoneActs(pos) ==
    CASE pos = "tx_prepare" -> { "LoraPrepareTxOk", "LoraPrepareTxErr" }
      [] pos = "tx" -> { "LoraTxOk", "LoraTxErr" }
      [] pos = "rearm" -> { "LoraRearmOk", "LoraRearmErr" }
      [] pos = "ack_prepare" -> { "LoraAckPrepareOk", "LoraAckPrepareErr" }
      [] pos = "ack_tx" -> { "LoraAckTxOk", "LoraAckTxErr" }
      [] pos = "ack_rearm" -> { "LoraAckRearmOk", "LoraAckRearmErr" }
      [] OTHER -> {}

\* a call of prepare_for_tx, tx or prepare_for_rx is awaited
CallInFlight == TxInProgress \/ AckInProgress

\* the step is the return of the call awaited, and nothing else
CallRunsToCompletion ==
    (CallInFlight /\ lpc' # lpc) =>
        /\ ev'.act \in DoneActs(lpc)
        /\ ble_to_lora' = ble_to_lora
        /\ airCount' = airCount

\* C18 as stated: a receive or transmit operation of the transceiver, once
\* started, runs to completion or to a reported failure before the task
\* takes a message from the outbound channel, starts another operation or
\* begins the next race.
C18_NoCancellation ==
    [][ /\ CallRunsToCompletion
        /\ (lpc = "select" /\ lpc' # lpc) => ev'.act \in RxDoneActs ]_vars

\* C18 amended: a prepare_for_tx, tx or prepare_for_rx call, once started,
\* returns before the task takes a message from the outbound channel,
\* receives a frame or starts another call. The receive wait of the race is
\* different: it ends when a receive returns or when a message of the
\* outbound channel wins the race, and then it is abandoned and the message
\* is taken and its transmission started.
C18_NoCancellationAmended ==
    [][ /\ CallRunsToCompletion
        /\ (lpc = "select" /\ lpc' # lpc) =>
              \/ ev'.act \in RxDoneActs
              \/ /\ ev'.act \in {"LoraDequeue", "LoraDequeueErr"}
                 /\ ble_to_lora # << >>
                 /\ airCount' = airCount
        /\ ev'.act \in RxDoneActs \cup {"LoraDequeue", "LoraDequeueErr"} =>
              AtRace ]_vars

\* the task was suspended in select with the receive wait pending when
\* Text{seq: 5, "HELP"} arrived on the outbound channel: the wait was
\* abandoned with no frame received, and prepare_for_tx is awaited
C18_Witness ==
    /\ ev.act = "LoraDequeue"
    /\ ev.at = "select"
    /\ ev.msg = TextMessage(5, << 72, 69, 76, 80 >>)
    /\ lpc = "tx_prepare"
    /\ txbuf = TextFrameHELP(5)
    /\ airCount = 0

\* no phone is connected: ble_task is in its advertising loop
Disconnected == bpc = "advertising"

\* q2 begins with q
KeepsAll(q, q2) == Len(q2) >= Len(q) /\ SubSeq(q2, 1, Len(q)) = q

\* C19: the step in which gatt_events_task sees Disconnected and ble_task
\* advertises again leaves both channels as they were. While no phone is
\* connected nothing leaves the inbound channel: every step keeps what it
\* holds, in order, adding at most one message at the tail while fewer than
\* 10 are queued; the step that accepts the next connection leaves both
\* channels as they were.
C19_DisconnectKeepsBuffers ==
    [][ /\ (bpc = "waiting" /\ bpc' = "advertising") =>
              /\ ev'.act = "BleDisconnected"
              /\ lora_to_ble' = lora_to_ble
              /\ ble_to_lora' = ble_to_lora
        /\ Disconnected =>
              /\ KeepsAll(lora_to_ble, lora_to_ble')
              /\ Len(lora_to_ble') <= IN_CAP
              /\ lora_to_ble' # lora_to_ble =>
                    /\ Len(lora_to_ble) < IN_CAP
                    /\ Enqueued(lora_to_ble, lora_to_ble')
        /\ (Disconnected /\ bpc' = "waiting") =>
              /\ lora_to_ble' = lora_to_ble
              /\ ble_to_lora' = ble_to_lora ]_vars

\* the phone had written Text{seq: 5, "HELP"} and gone; with no phone
\* connected the long-range task has just put a third message on the inbound
\* channel, behind the two that were there, and the outbound channel still
\* holds the phone's message
C19_Witness ==
    /\ Disconnected
    /\ bleCount = 1
    /\ ble_to_lora = << TextMessage(5, << 72, 69, 76, 80 >>) >>
    /\ ev.send = "ok"
    /\ ev.act \in AckDoneActs
    /\ Len(lora_to_ble) = 3
    /\ lora_to_ble[3] = ev.msg

\* the connection has just been accepted and the inbound channel holds
\* messages: all of them were enqueued before this connection
ReconnectedWithBuffer ==
    /\ ev.act = "BleConnect"
    /\ bpc = "waiting"
    /\ lora_to_ble # << >>

\* C20: after a phone reconnects, every message buffered in the inbound
\* channel is eventually emitted as a notification, provided the connection
\* stays up and the tasks are scheduled fairly. Stated for the first of the
\* buffered messages, which is the least the claim asks: once a connection
\* is accepted with messages buffered, a notification is started or the
\* phone disconnects.
C20_BufferedDelivery ==
    ReconnectedWithBuffer ~> (bpc = "notifying" \/ Disconnected)

\* the values of LORA_TX_POWER_DBM that are integers of -4..20, each with the
\* integer it denotes
ValidPowers ==
    {
      << << 49, 52 >>, 14 >>,                                            \* "14"
      << << 45, 52 >>, -4 >>,                                            \* "-4"
      << << 50, 48 >>, 20 >>,                                            \* "20"
      << << 43, 55 >>, 7 >>,                                             \* "+7"
      << << 48 >>, 0 >>,                                                 \* "0"
      << << 48, 48, 55 >>, 7 >> }                                        \* "007"

\* the values of LORA_TX_FREQUENCY that are frequencies of 433.05-434.79 MHz,
\* 863-870 MHz or 902-928 MHz, each with the number of Hz it denotes
ValidFrequencies ==
    {
      << << 52, 51, 51, 57, 50, 48, 48, 48, 48 >>, 433920000 >>,         \* "433920000"
      << << 52, 51, 51, 48, 53, 48, 48, 48, 48 >>, 433050000 >>,         \* "433050000"
      << << 52, 51, 52, 55, 57, 48, 48, 48, 48 >>, 434790000 >>,         \* "434790000"
      << << 56, 54, 51, 48, 48, 48, 48, 48, 48 >>, 863000000 >>,         \* "863000000"
      << << 57, 49, 53, 48, 48, 48, 48, 48, 48 >>, 915000000 >>,         \* "915000000"
      << << 43, 57, 48, 50, 48, 48, 48, 48, 48, 48 >>, 902000000 >> }    \* "+902000000"

\* the value the table gives for a configured string, the default for a
\* variable that is not set or holds anything else
Configured(opt, valid, default) ==
    IF opt.some /\ \E e \in valid : e[1] = opt.str
    THEN (CHOOSE e \in valid : e[1] = opt.str)[2]
    ELSE default

\* lora_task has bound output_power and frequency
ConfigResolved == lpc \notin {"init", "dead"}

\* C21: the output power is the configured integer when it parses and lies
\* in -4..20 and 14 otherwise, the frequency is the configured value when it
\* parses and lies in one of the three bands and 433,920,000 Hz otherwise;
\* whatever the configuration holds, the task can pass its initialisation;
\* the two values never change afterwards and every prepare_for_tx, for a
\* bridged message or for an Ack, is given that output power.
C21_ConfigResolution ==
    /\ [](ConfigResolved =>
            /\ output_power = Configured(power_str, ValidPowers, 14)
            /\ frequency = Configured(freq_str, ValidFrequencies, 433920000)
            /\ txpower \in {<< >>, << output_power >>}
            /\ lpc \in {"tx_prepare", "ack_prepare"} =>
                  txpower = << Configured(power_str, ValidPowers, 14) >>)
    /\ [](lpc = "init" => ENABLED (LoraInit /\ lpc' = "race"))
    /\ [][ConfigResolved =>
            /\ output_power' = output_power
            /\ frequency' = frequency
            /\ power_str' = power_str
            /\ freq_str' = freq_str]_vars

\* a build with LORA_TX_POWER_DBM = "21" and LORA_TX_FREQUENCY = "+902000000":
\* the Ack of a received frame is being prepared with 14 dBm, at 902 MHz
C21_Witness ==
    /\ power_str = Some(<< 50, 49 >>)
    /\ freq_str = Some(<< 43, 57, 48, 50, 48, 48, 48, 48, 48, 48 >>)
    /\ lpc = "ack_prepare"
    /\ txpower = << 14 >>
    /\ frequency = 902000000

\* lora_task has returned from its initialisation with an error
LoraDead == lpc = "dead"

\* C22: a failure of a step of the long-range initialisation ends the task
\* before its loop. From then on the task stays ended: it gives the
\* transceiver no command, takes nothing from the outbound channel and puts
\* nothing on the inbound channel, and no frame is received. The short-range
\* task goes on: it can connect and take events, and a decodable write is
\* appended to the outbound channel while it holds fewer than 5 messages and
\* dropped once it holds 5.
C22_StartupFailure ==
    /\ [](LoraDead =>
            /\ radio = "off"
            /\ txbuf = << >>
            /\ lmsg = NoMsg
            /\ lora_to_ble = << >>
            /\ airCount = 0
            /\ acksSent = 0
            /\ bpc = "advertising" => ENABLED BleConnect
            /\ bpc = "waiting" => ENABLED BleOtherEvent
            /\ (bpc = "waiting" /\ bleCount < MaxWrites) => ENABLED BleWriteRx)
    /\ [][ /\ LoraDead' => lpc \in {"init", "dead"}
           /\ LoraDead =>
                /\ LoraDead'
                /\ KeepsAll(ble_to_lora, ble_to_lora')
                /\ bleCount' # bleCount =>
                      IF Len(ble_to_lora) < OUT_CAP
                      THEN /\ ev'.send = "ok"
                           /\ ble_to_lora' = Append(ble_to_lora, ev'.msg)
                      ELSE /\ ev'.send = "full"
                           /\ ble_to_lora' = ble_to_lora ]_vars

\* the long-range task has ended at start-up; the phone has written six
\* messages: five are queued and the sixth, Text{seq: 10, "HELP"}, was dropped
C22_Witness ==
    /\ LoraDead
    /\ bpc = "waiting"
    /\ Len(ble_to_lora) = OUT_CAP
    /\ ble_to_lora[1] = TextMessage(5, << 72, 69, 76, 80 >>)
    /\ bleCount = 6
    /\ ev.act = "BleWriteRx"
    /\ ev.send = "full"
    /\ ev.msg.seq = 10

\* C23: in every reachable state the outbound channel holds at most 5
\* messages and the inbound channel at most 10.
C23_BoundedBuffering ==
    /\ Len(ble_to_lora) <= 5
    /\ Len(lora_to_ble) <= 10

\* with no phone connected the inbound channel holds 10 messages, and the
\* long-range task has just been refused room on it for the eleventh message
\* received, whose Ack it could not prepare
C23_Witness ==
    /\ bpc = "advertising"
    /\ Len(lora_to_ble) = 10
    /\ ev.act = "LoraAckPrepareErr"
    /\ ev.send = "full"
    /\ airCount = 11

BadInputActs == { "LoraRxUndecodable", "LoraRxErr" }

\* C25: when lora.rx returns an error, or a frame that does not decode, the
\* long-range task gives the transceiver no command and no frame (no Ack),
\* leaves both channels as they were and is at the top of its loop, from
\* where the next iteration can start. A receive step that is not the remote
\* bridge's next frame is such a step.
C25_BadInputDiscarded ==
    /\ [][ /\ (ev'.act \in RxDoneActs /\ airCount' = airCount) =>
                 ev'.act \in BadInputActs
           /\ ev'.act \in BadInputActs =>
                 /\ AtRace
                 /\ lpc' = "race"
                 /\ ble_to_lora' = ble_to_lora
                 /\ lora_to_ble' = lora_to_ble
                 /\ radio' = radio
                 /\ txbuf' = << >> /\ txbuf = << >>
                 /\ lmsg' = NoMsg
                 /\ acksSent' = acksSent
                 /\ dataReceived' = dataReceived ]_vars
    /\ [](lpc = "race" => ENABLED (LoraSelectPending \/ LoraDequeue \/ LoraRx))

\* a frame that does not decode was received after two that did: nothing
\* was sent, the inbound channel holds the two messages as before, and the
\* task is at the top of its loop with the transceiver still in receive
C25_Witness ==
    /\ ev.act = "LoraRxUndecodable"
    /\ lpc = "race"
    /\ radio = "rx"
    /\ Len(lora_to_ble) = 2
    /\ ble_to_lora = << >>
    /\ bleCount = 1
    /\ acksSent = 2
    /\ txbuf = << >>

\* what the short-range task logs for the events of a connection
GattActs ==
    { "BleWriteRx", "BleWriteOther", "BleRead", "BleOtherGatt", "BleOtherConn",
      "BleDisconnected" }

\* C26: only a write to the RX attribute whose payload decodes puts a
\* message on the outbound channel. A write to RX whose payload does not
\* decode, a write to another attribute, a read, any other GATT event and any
\* other connection event leave the outbound channel as it was; the channel
\* grows in no step but the handling of a decodable write to RX.
C26_OnlyValidWrites ==
    [][ /\ (ev'.act \in GattActs /\ bleCount' = bleCount) =>
              /\ ble_to_lora' = ble_to_lora
              /\ ev'.send = "none"
        /\ Len(ble_to_lora') > Len(ble_to_lora) =>
              /\ ev'.act = "BleWriteRx"
              /\ bleCount' = bleCount + 1
              /\ ev'.send = "ok"
              /\ ble_to_lora' = Append(ble_to_lora, ev'.msg)
              /\ ev'.msg = Decode(BleFrames[bleCount'] ).msg ]_vars

\* the phone's last event was a write to RX of a payload that does not
\* decode: the outbound channel holds the two messages written before
C26_Witness ==
    /\ ev.act = "BleWriteRx"
    /\ ev.send = "none"
    /\ ev.msg = NoMsg
    /\ bleCount = 2
    /\ Len(ble_to_lora) = 2
    /\ ble_to_lora[1] = TextMessage(5, << 72, 69, 76, 80 >>)
    /\ bpc = "waiting"

\* what the short-range task logs for a connection event that is followed by
\* the poll of the inbound channel
PolledActs ==
    { "BleWriteRx", "BleWriteOther", "BleRead", "BleOtherGatt", "BleOtherConn" }

\* C27: a loop iteration of gatt_events_task that handles an event other
\* than the disconnect takes the head of the inbound channel when it holds a
\* message, and only the head; the iteration that sees the disconnect takes
\* nothing; a message leaves the inbound channel in no other step, so never
\* while no phone is connected or a notification is in progress.
C27_PollingStep ==
    [][ /\ ev'.act \in PolledActs =>
              /\ bpc = "waiting"
              /\ IF lora_to_ble = << >> THEN lora_to_ble' = << >>
                 ELSE lora_to_ble' = Tail(lora_to_ble)
        /\ ev'.act = "BleDisconnected" => lora_to_ble' = lora_to_ble
        /\ ev'.act \notin PolledActs => KeepsAll(lora_to_ble, lora_to_ble')
        /\ bpc # "waiting" => KeepsAll(lora_to_ble, lora_to_ble') ]_vars

\* three frames were received and queued, the third a repetition of the
\* second; the phone then read an attribute: the poll of that iteration took
\* the first message for notification and left the other two
C27_Witness ==
    /\ ev.act = "BleRead"
    /\ bpc = "notifying"
    /\ airCount = 3
    /\ lpc \in {"race", "select"}
    /\ Len(lora_to_ble) = 2
    /\ lora_to_ble[1].type = "Gps"
    /\ lora_to_ble[1].seq = AirSeq(2)
    /\ lora_to_ble[2] = lora_to_ble[1]

\* the step takes a message from the inbound channel and starts notify
StartsNotify == bpc = "waiting" /\ bpc' = "notifying"

\* C28: for every message m taken from the inbound channel, the payload
\* handed to notify is the wire frame serialize(m): its length is the length
\* serialize returned and its bytes are the encoded bytes.
C28_NotificationPayload ==
    [][StartsNotify =>
          /\ lora_to_ble # << >>
          /\ lora_to_ble' = Tail(lora_to_ble)
          /\ Encode(Head(lora_to_ble)).ok
          /\ Len(nbuf') = Encode(Head(lora_to_ble)).len
          /\ nbuf' = SubSeq(Encode(Head(lora_to_ble)).buf, 1,
                            Encode(Head(lora_to_ble)).len)]_vars

\* lora_task has passed its initialisation and is in its loop
InLoop == lpc \notin {"init", "dead"}

\* the messages the phone's decodable writes carry
WrittenMessages == { Decode(BleFrames[k]).msg : k \in 1..MaxWrites }

\* m has just been taken from the outbound channel and serialized, and its
\* frame handed to prepare_for_tx
TransmitAttempted(m) ==
    /\ ev.act = "LoraDequeue"
    /\ ev.msg = m
    /\ lpc = "tx_prepare"
    /\ txbuf # << >>

\* C29: once the long-range task is in its loop, every message on the
\* outbound channel is eventually taken from it and given a transmit attempt,
\* whatever arrives over the air and whether or not the phone is still
\* connected. Stated for the message at the head of the channel, which every
\* queued message becomes.
C29_OutboundProgress ==
    \A m \in WrittenMessages :
        (InLoop /\ ble_to_lora # << >> /\ Head(ble_to_lora) = m)
            ~> TransmitAttempted(m)

\* the long-range task is awaiting a transceiver call of an iteration won by
\* the outbound channel
InDequeueIteration == lpc \in {"tx_prepare", "tx", "rearm"}

\* the long-range task is awaiting a transceiver call of an iteration won by
\* a received frame
InReceiveIteration == lpc \in {"ack_prepare", "ack_tx", "ack_rearm"}

DequeueActs == {"LoraDequeue", "LoraDequeueErr"}

\* C30: an iteration of the long-range loop is won by one event. The step in
\* which a receive wins leaves the outbound channel as it was, and so does
\* every later step of that iteration; the step in which the outbound channel
\* wins removes exactly its head, handles no frame and puts nothing on the
\* inbound channel, and neither does a later step of that iteration; a message
\* leaves the outbound channel in no other step. Every iteration starts at
\* the race with both waits created anew: with a message waiting the dequeue
\* can win, and with none a receive can.
C30_RaceConsumesOne ==
    /\ [](AtRace => IF ble_to_lora # << >> THEN ENABLED LoraDequeue
                                            ELSE ENABLED LoraRx)
    /\ [][ /\ ev'.act \in RxDoneActs =>
                /\ AtRace
                /\ ble_to_lora' = ble_to_lora
           /\ InReceiveIteration => Len(ble_to_lora') >= Len(ble_to_lora)
           /\ ev'.act \in DequeueActs =>
                /\ AtRace
                /\ ble_to_lora # << >>
                /\ ev'.msg = Head(ble_to_lora)
                /\ ble_to_lora' = Tail(ble_to_lora)
                /\ airCount' = airCount
                /\ dataReceived' = dataReceived
                /\ acksSent' = acksSent
                /\ lora_to_ble' = lora_to_ble
           /\ InDequeueIteration =>
                /\ ev'.act \notin RxDoneActs
                /\ airCount' = airCount
                /\ dataReceived' = dataReceived
                /\ acksSent' = acksSent
                /\ Len(lora_to_ble') <= Len(lora_to_ble)
           /\ Len(ble_to_lora') < Len(ble_to_lora) => ev'.act \in DequeueActs
          ]_vars

\* after an iteration won by the remote bridge's first frame, the phone wrote
\* two messages: the iteration at hand was won by the outbound channel, which
\* gave up the first of them and still holds the second
C30_Witness ==
    /\ ev.act = "LoraDequeue"
    /\ ev.msg = Decode(BleFrames[1]).msg
    /\ ble_to_lora = << Decode(BleFrames[2]).msg >>
    /\ lpc = "tx_prepare"
    /\ airCount = 1
    /\ acksSent = 1
    /\ bleCount = 2

\* how many times the channel holds the message
Occurrences(q, m) == Cardinality({ i \in DOMAIN q : q[i] = m })

\* the frame received is one the remote bridge sent before
ReceivedAgain(k) == \E j \in 1..(k - 1) : AirFrames[j] = AirFrames[k]

\* C31: a Text or Gps frame received again (same seq, same content) is
\* handled as the first time: the step that receives it starts the
\* transmission of its Ack, and the step that ends the Ack sequence makes the
\* try_send, which with room appends the message to the inbound channel
\* although the channel may hold an equal message already.
C31_NoDuplicateSuppression ==
    [][ /\ ( /\ airCount' = airCount + 1
             /\ ReceivedAgain(airCount')
             /\ Decode(AirFrames[airCount']).ok
             /\ IsData(Decode(AirFrames[airCount']).msg) ) =>
               /\ ev'.act = "LoraRxData"
               /\ lmsg' = Decode(AirFrames[airCount']).msg
               /\ lpc' = "ack_prepare"
               /\ txbuf' = AckFrame(lmsg'.seq)
               /\ acksSent' = acksSent + 1
        /\ (AckInProgress /\ lpc' = "race" /\ Len(lora_to_ble) < IN_CAP) =>
               /\ ev'.send = "ok"
               /\ lora_to_ble' = Append(lora_to_ble, lmsg)
               /\ Occurrences(lora_to_ble', lmsg) = Occurrences(lora_to_ble, lmsg) + 1
      ]_vars

\* the remote bridge sent Gps{seq: 8} twice and the phone took nothing in
\* between: both receptions were acknowledged and the inbound channel holds
\* the message twice
C31_Witness ==
    /\ airCount = 3
    /\ ev.act = "LoraAckRearmOk"
    /\ ev.send = "ok"
    /\ ev.msg = Decode(GpsFrameSF(AirSeq(2))).msg
    /\ Occurrences(lora_to_ble, ev.msg) = 2
    /\ acksSent = 3

\* the step that forwards the received message the Ack sequence was for
ForwardsReceived == AckInProgress /\ lpc' = "race"

\* C32: when the long-range task forwards a received Text message and the
\* inbound channel holds 10 messages, the oldest of them is dropped and the
\* new message is queued behind the other nine.
C32_DropOldestWhenFull ==
    [][ (ForwardsReceived /\ lmsg.type = "Text" /\ Len(lora_to_ble) = IN_CAP) =>
            lora_to_ble' = Append(Tail(lora_to_ble), lmsg) ]_vars

\* C33: every message deserialize returns for a buffer of at most 64 bytes
\* serializes into a 64-byte buffer.
C33_DecodedReencodable ==
    (cpc = "rawreencoded" /\ Len(raw) <= BUF_SIZE /\ Len(dst) = BUF_SIZE) => enc2.ok

\* the messages of the first n frames of the given list that decode, in order
RECURSIVE DecodedOf(_, _)
DecodedOf(frames, n) ==
    IF n = 0 THEN << >>
    ELSE LET d == Decode(frames[n])
         IN  IF d.ok THEN Append(DecodedOf(frames, n - 1), d.msg)
             ELSE DecodedOf(frames, n - 1)

\* q is d with some elements left out: each element of q is an element of d
\* of its own, in the same order
RECURSIVE IsSubsequence(_, _)
IsSubsequence(q, d) ==
    IF q = << >> THEN TRUE
    ELSE IF d = << >> THEN FALSE
    ELSE IF Head(q) = Head(d) THEN IsSubsequence(Tail(q), Tail(d))
    ELSE IsSubsequence(q, Tail(d))

\* the message of the notify call in progress, if there is one
Notifying == IF bpc = "notifying" THEN << deserialize(nbuf).msg >> ELSE << >>

\* the outbound message whose transmission is in progress, if there is one
Transmitting == IF lpc \in {"tx_prepare", "tx"} THEN << lmsg >> ELSE << >>

\* C34: nothing is made up and nothing is passed on twice. The message of the
\* notify call in progress followed by the inbound channel is a subsequence of
\* the messages decoded from the frames received so far, and the notify calls
\* started plus the messages still queued never outnumber those receptions;
\* the outbound message in transmission followed by the outbound channel is a
\* subsequence of the messages decoded from the phone's writes so far, and the
\* transmit attempts made plus the messages still queued never outnumber those
\* writes. A notify call starts only by taking the head of the inbound
\* channel and carries that message; a frame is handed to prepare_for_tx only
\* as the Ack of the frame just received or by taking the head of the
\* outbound channel, whose frame it is.
C34_NoFabrication ==
    /\ [](/\ IsSubsequence(Notifying \o lora_to_ble, DecodedOf(AirFrames, airCount))
          /\ notified + Len(lora_to_ble) <= Len(DecodedOf(AirFrames, airCount))
          /\ IsSubsequence(Transmitting \o ble_to_lora, DecodedOf(BleFrames, bleCount))
          /\ bridgedTx + Len(ble_to_lora) <= Len(DecodedOf(BleFrames, bleCount)))
    /\ [][ /\ (bpc' = "notifying" /\ bpc # "notifying") =>
                 /\ notified' = notified + 1
                 /\ lora_to_ble # << >>
                 /\ lora_to_ble' = Tail(lora_to_ble)
                 /\ deserialize(nbuf').msg = Head(lora_to_ble)
           /\ (txbuf' # txbuf /\ txbuf' # << >>) =>
                 \/ /\ acksSent' = acksSent + 1
                    /\ bridgedTx' = bridgedTx
                    /\ airCount' = airCount + 1
                    /\ txbuf' = AckFrame(Decode(AirFrames[airCount']).msg.seq)
                 \/ /\ bridgedTx' = bridgedTx + 1
                    /\ acksSent' = acksSent
                    /\ ble_to_lora # << >>
                    /\ ble_to_lora' = Tail(ble_to_lora)
                    /\ Decode(txbuf').msg = Head(ble_to_lora)
           /\ notified' \in {notified, notified + 1}
           /\ bridgedTx' \in {bridgedTx, bridgedTx + 1}
         ]_vars

\* two frames were received and two notify calls made, the second in
\* progress; of the phone's one write the frame is with prepare_for_tx; both
\* channels are empty
C34_Witness ==
    /\ bpc = "notifying"
    /\ notified = 2
    /\ airCount = 2
    /\ lora_to_ble = << >>
    /\ lpc = "tx_prepare"
    /\ bridgedTx = 1
    /\ bleCount = 1
    /\ ble_to_lora = << >>

\* C35: a message taken from the inbound channel is gone from it whether or
\* not it reaches the phone. The poll removes the head also when serialize
\* fails, and then no notify is started; when notify returns an error the
\* channel is left as it is. The channel grows only by the long-range task
\* appending the message it has just received, so a message taken is not
\* offered to the phone again.
C35_FailedNotifyConsumes ==
    [][ /\ (ev'.act \in PolledActs /\ lora_to_ble # << >>) =>
              /\ lora_to_ble' = Tail(lora_to_ble)
              /\ ~Encode(Head(lora_to_ble)).ok =>
                    /\ bpc' = "waiting"
                    /\ nbuf' = << >>
                    /\ notified' = notified
        /\ ev'.act = "BleNotifyErr" =>
              /\ bpc = "notifying"
              /\ bpc' = "waiting"
              /\ lora_to_ble' = lora_to_ble
        /\ lora_to_ble' # lora_to_ble =>
              \/ /\ lora_to_ble # << >>
                 /\ lora_to_ble' = Tail(lora_to_ble)
              \/ /\ ev'.act \in LoraSendActs
                 /\ lora_to_ble' = Append(lora_to_ble, ev'.msg)
      ]_vars

\* three frames were received and queued; the first message reached the
\* phone, the notify call of the second has just failed, and the channel
\* holds the third alone
C35_Witness ==
    /\ ev.act = "BleNotifyErr"
    /\ bpc = "waiting"
    /\ notified = 2
    /\ airCount = 3
    /\ Len(lora_to_ble) = 1
    /\ lora_to_ble[1] = Decode(AirFrames[3]).msg
    /\ lpc = "select"

\* the binary's lora_task is at lora_to_ble.send(msg).await
AtForward == lpc = "forward"

\* C36: in the binary's lora_task the forward of a received message does not
\* block the loop: from the send with the inbound channel full (1 message)
\* the task gets back to the race, and a message waiting on the outbound
\* channel gets to prepare_for_tx, unless an unwrap has halted the firmware.
C36_BinForwardNeverBlocks ==
    /\ (AtForward /\ Len(lora_to_ble) = BIN_CAP) ~> (lpc \in {"race", "halted"})
    /\ (AtForward /\ Len(lora_to_ble) = BIN_CAP /\ ble_to_lora # << >>)
          ~> (lpc \in {"tx_prepare", "halted"})

\* C37: serialize touches only what it returns. When it fails the destination
\* buffer is as it was; when it returns n, the bytes from n on are as they
\* were and the first n bytes are those it writes into a zeroed buffer, so
\* they do not depend on what the buffer held.
C37_EncodeFrame ==
    cpc = "encoded" =>
        /\ ~enc.ok => enc.buf = dst
        /\ enc.ok =>
              /\ Len(enc.buf) = Len(dst)
              /\ \A k \in (enc.len + 1)..Len(dst) : enc.buf[k] = dst[k]
              /\ SubSeq(enc.buf, 1, enc.len)
                   = SubSeq(serialize(msg, Buffer(Len(dst))).buf, 1, enc.len)

\* Text{seq: 42, "HELP"} serialized into a 64-byte buffer that held other
\* bytes: 7 bytes written
C37_Witness ==
    /\ cpc = "encoded"
    /\ msg = TextMessage(42, << 72, 69, 76, 80 >>)
    /\ dst = UsedBuffer(BUF_SIZE)
    /\ enc.ok
    /\ enc.len = 7
    /\ SubSeq(enc.buf, 1, 7) = TextFrameHELP(42)

\* C38: deserialize ignores what follows the frame: on the frame serialize
\* wrote followed by other bytes it returns what it returns on the frame
\* alone, the message or the error.
C38_TrailingBytesIgnored ==
    cpc = "paddecoded" =>
        LET alone == deserialize(SubSeq(enc.buf, 1, enc.len))
        IN  /\ dec.ok = alone.ok
            /\ dec.msg = alone.msg
            /\ dec.err = alone.err
            /\ dec.panic = alone.panic

\* the 10-byte frame of a Gps message followed by 54 zero bytes decodes to
\* the message
C38_Witness ==
    /\ cpc = "paddecoded"
    /\ msg = GpsMessage(42, 37774200, -122419200)
    /\ Len(raw) = BUF_SIZE
    /\ SubSeq(raw, 11, BUF_SIZE) = ZeroPad(BUF_SIZE - 10)
    /\ dec.ok
    /\ dec.msg = msg

\* C39: a frame serialize returns has at most 42 bytes, so with a 64-byte
\* buffer serialize never fails for want of room, for a message given to it
\* or for one deserialize returned; an Ack serializes into 64 bytes, to 2.
C39_BufferSizing ==
    /\ (cpc = "encoded" /\ enc.ok) => enc.len <= 42
    /\ (cpc = "encoded" /\ Len(dst) = BUF_SIZE) => enc.err # "Buffer too small"
    /\ (cpc = "encoded" /\ Len(dst) = BUF_SIZE /\ msg.type = "Ack") =>
          enc.ok /\ enc.len = 2
    /\ cpc = "rawreencoded" =>
          /\ enc2.err # "Buffer too small"
          /\ enc2.ok => enc2.len <= 42
          /\ dec.msg.type = "Ack" => enc2.ok /\ enc2.len = 2

\* a Text of 50 characters serialized into a 64-byte buffer: 42 bytes
C39_Witness ==
    /\ cpc = "encoded"
    /\ msg.type = "Text"
    /\ StrLen(msg.text) = MAX_TEXT_LENGTH
    /\ Len(dst) = BUF_SIZE
    /\ enc.ok
    /\ enc.len = 42

====
